---------------------------- MODULE Spec2Model ----------------------------
(***************************************************************************)
(* A model of the GRIB ingestion path of kalshi_rain                       *)
(* (backend/src/ingest.py with its configuration and its forecast store).  *)
(*                                                                         *)
(* Time.  A datetime is an integer number of ticks on one UTC axis whose   *)
(* origin is 1 November 00:00; an hour is TPH ticks.  The axis covers      *)
(* November (30 days) and December (31 days), so both branches of the      *)
(* month roll-over of process_model_run are exercised.                     *)
(*                                                                         *)
(* Amounts.  Python floats are modelled as exact rationals <<n, d>> in     *)
(* lowest terms.  Amounts in inches are counted in units of 0.0393701 in   *)
(* (the image of 1 mm), so that the product val * 0.0393701 of a grid      *)
(* value of k mm is exactly k units.                                       *)
(***************************************************************************)
EXTENDS Integers, Sequences, FiniteSets, TLC

(***************************************************************************)
(* Bounds of the exploration (not program constants).                      *)
(***************************************************************************)
\* resolution of the clock: ticks per second (datetime has microseconds)
TicksPerSecond == 2
\* the remote source holds a run among the first MaxLag candidates, or none
MaxLag == 2
\* process_model_run is explored for plans of at most MaxPlan lead times
MaxPlan == 4
\* number of distinct grid contents (fields) the remote source may serve
MaxField == 2
\* environment faults (missing newest run, failed fetch, failed write) per batch
MaxFaults == 1
MaxAccPlan == 2
MaxCalls == 3

(***************************************************************************)
(* Program constants.                                                      *)
(***************************************************************************)
SecondsPerHour == 3600
\* range(13): one candidate too many
ProbeCountOffByOne == 12 + 1
\* range(12)
ProbeCount == 12

TPH == SecondsPerHour * TicksPerSecond
Day == 24 * TPH

None == "None"

Max(a, b) == IF a >= b THEN a ELSE b
Min(a, b) == IF a <= b THEN a ELSE b

(***************************************************************************)
(* Exact rationals standing for Python floats.                             *)
(***************************************************************************)
Abs(x) == IF x < 0 THEN -x ELSE x

RECURSIVE GCD(_, _)
GCD(a, b) == IF b = 0 THEN a ELSE GCD(b, a % b)

\* n/d in lowest terms, d > 0
Rat(n, d) ==
    LET g == GCD(Abs(n), d)
    IN  IF n = 0 THEN <<0, 1>> ELSE <<n \div g, d \div g>>

RInt(k) == <<k, 1>>
\* sums over the least common denominator
RAdd(x, y) ==
    LET g == GCD(x[2], y[2])
    IN  Rat(x[1] * (y[2] \div g) + y[1] * (x[2] \div g), (x[2] \div g) * y[2])
RNeg(x) == <<-x[1], x[2]>>
RSub(x, y) == RAdd(x, RNeg(y))
RMul(x, y) == Rat(x[1] * y[1], x[2] * y[2])
RLeq(x, y) == x[1] * y[2] <= y[1] * x[2]
RMax(x, y) == IF RLeq(y, x) THEN x ELSE y
RZero == RInt(0)
\* SQL NULL / Python None in a REAL column
RNone == <<0, 0>>
\* (x or 0.0)
Or0(x) == IF x[2] = 0 THEN RZero ELSE x

(***************************************************************************)
(* The calendar: datetime.month, datetime.year and datetime(y, m, 1).      *)
(***************************************************************************)
MonthStart == <<0, 30 * Day, 61 * Day>>
\* the index (1: November, 2: December) of the month an instant falls in
MonthIndex(t) == IF t < MonthStart[2] THEN 1 ELSE 2
month(t) == IF MonthIndex(t) = 1 THEN 11 ELSE 12
year(t) == 0
\* datetime(y, m, 1, tzinfo=utc) for the months of the axis
FirstOf(y, m) ==
    IF y = 0 /\ m = 11 THEN MonthStart[1]
    ELSE IF y = 0 /\ m = 12 THEN MonthStart[2]
    ELSE MonthStart[3]


(***************************************************************************)
(* Configuration (config.py).  STATIONS maps a station key to its Station; *)
(* two of the ten stations are kept.  MODELS as shipped maps display names *)
(* to Open-Meteo model strings; ingest.py indexes each entry with          *)
(* ['bucket'] and ['prefix_template'], which only an entry that is a       *)
(* mapping of the remote-source addressing parameters supports.            *)
(***************************************************************************)
\* lat and lon in whole degrees
STATIONS ==
    [NYC    |-> [id |-> "KNYC", lat |-> 41, lon |-> -74,
                 timezone |-> "America/New_York"],
     CLILAX |-> [id |-> "KLAX", lat |-> 34, lon |-> -118,
                 timezone |-> "America/Los_Angeles"]]

\* the iteration order of the dict
StationKeys == <<"NYC", "CLILAX">>

\* the batch of __main__, in order
BatchModels == <<"GFS", "ECMWF", "NAM", "HRRR">>
ModelNames == {BatchModels[j] : j \in 1..Len(BatchModels)}

\* MODELS.get(name) under config.py as shipped: a str, or None for a missing name
ShippedMODELS ==
    [m \in ModelNames |->
        CASE m = "GFS"  -> [kind |-> "str", value |-> "gfs_seamless"]
          [] m = "NAM"  -> [kind |-> "str", value |-> "nam_us"]
          [] m = "HRRR" -> [kind |-> "str", value |-> "hrrr_us"]
          [] OTHER      -> [kind |-> "None", value |-> "None"]]

\* a MODELS table of model profiles with remote-source addressing parameters
ProfileMODELS ==
    [m \in ModelNames |-> [kind |-> "dict", value |-> m]]

(***************************************************************************)
(* get_latest_run_time: the cycle arithmetic.                              *)
(***************************************************************************)
cycle_step(model_name) == IF model_name \in {"HRRR", "NAM"} THEN 1 ELSE 6

\* datetime.hour
hour(t) == (t \div TPH) % 24

\* the top of the hour, whatever the hour
CycleStartTopOfHour(model_name, t) == (t \div TPH) * TPH

\* now.replace(minute=0, second=0, microsecond=0), then .replace(hour=hour)
CycleStart(model_name, t) ==
    LET top == (t \div TPH) * TPH
        h   == (hour(top) \div cycle_step(model_name)) * cycle_step(model_name)
    IN  top - (hour(top) - h) * TPH

\* candidates walking forward in time
CandidateForward(model_name, ccs, j) == ccs + cycle_step(model_name) * j * TPH

\* t = current_cycle_start - timedelta(hours=cycle_step*i)
Candidate(model_name, ccs, j) == ccs - cycle_step(model_name) * j * TPH

(***************************************************************************)
(* process_model_run: the window, the model's temporal profile, the plan.  *)
(***************************************************************************)
next_month(t) ==
    IF month(t) = 12 THEN FirstOf(year(t) + 1, 1)
    ELSE FirstOf(year(t), month(t) + 1)

\* next_month - timedelta(seconds=1)
month_end(t) == next_month(t) - TicksPerSecond

\* offsets in ticks: (t - run_time).total_seconds() / 3600 hours is ticks / TPH
StartOffset(rt, t) == Max(rt, t) - rt
EndOffset(rt, t) == month_end(t) - rt

step_size(model_name) ==
    IF model_name = "NAM" THEN 3
    ELSE IF model_name = "HRRR" THEN 1
    ELSE 6

max_forecast_hour(model_name) ==
    IF model_name = "NAM" THEN 84
    ELSE IF model_name = "HRRR" THEN 48
    ELSE IF model_name = "ECMWF" THEN 240
    ELSE 384

is_cumulative(model_name) == model_name \in {"ECMWF", "NAM", "HRRR"}

\* int(offset // step_size) * step_size, offset in ticks, result in hours
FloorToStep(off, ss) == (off \div (ss * TPH)) * ss

\* sorted(list(set([a, b])))
SortedPair(a, b) ==
    IF a = b THEN <<a>> ELSE IF a < b THEN <<a, b>> ELSE <<b, a>>

\* "if step_start > max_forecast_hour"
CumulativeStepsStrict(ss, mfh, so, eo) ==
    LET step_start == FloorToStep(so, ss)
        step_end   == Min(FloorToStep(eo, ss), mfh)
    IN  IF step_start > mfh THEN <<>> ELSE SortedPair(step_start, step_end)

\* step_end not clamped to the horizon
CumulativeStepsNoClamp(ss, mfh, so, eo) ==
    LET step_start == FloorToStep(so, ss)
        step_end   == FloorToStep(eo, ss)
    IN  IF step_start >= mfh THEN <<>> ELSE SortedPair(step_start, step_end)

CumulativeSteps(ss, mfh, so, eo) ==
    LET step_start == FloorToStep(so, ss)
        step_end   == Min(FloorToStep(eo, ss), mfh)
    IN  IF step_start >= mfh THEN <<>> ELSE SortedPair(step_start, step_end)

\* range(step_size, max_forecast_hour, step_size): without the last bucket
StepRangeShort(ss, mfh) == [j \in 1..((mfh - 1) \div ss) |-> j * ss]

\* range(step_size, max_forecast_hour + step_size, step_size)
StepRange(ss, mfh) == [j \in 1..((mfh + ss - 1) \div ss) |-> j * ss]

\* "file_end_rel >= start_hour_offset"
SummingStepsClosed(ss, mfh, so, eo) ==
    LET Overlaps(h) == h * TPH >= so /\ (h - ss) * TPH < eo
    IN  SelectSeq(StepRange(ss, mfh), Overlaps)

SummingSteps(ss, mfh, so, eo) ==
    LET Overlaps(h) == h * TPH > so /\ (h - ss) * TPH < eo
    IN  SelectSeq(StepRange(ss, mfh), Overlaps)

RelevantSteps(model_name, so, eo) ==
    IF is_cumulative(model_name)
    THEN CumulativeSteps(step_size(model_name), max_forecast_hour(model_name), so, eo)
    ELSE SummingSteps(step_size(model_name), max_forecast_hour(model_name), so, eo)

\* the end offset rounded down to a step before the comparison
IsPartialRounded(model_name, eo) ==
    FloorToStep(eo, step_size(model_name)) > max_forecast_hour(model_name)

IsPartial(model_name, eo) == eo > max_forecast_hour(model_name) * TPH

(***************************************************************************)
(* process_model_run: the accumulation of one station's recovered values.  *)
(* vals is the dict values_at_steps[sid]: a function whose domain is the   *)
(* set of recovered lead times.                                            *)
(***************************************************************************)
SetMin(S) == CHOOSE x \in S : \A y \in S : x <= y
SetMax(S) == CHOOSE x \in S : \A y \in S : x >= y

\* dict.get(step, 0.0)
Get(vals, step) == IF step \in DOMAIN vals THEN vals[step] ELSE RZero

\* two or more steps: the value at the last step, the first not subtracted
CumulativeValLastOnly(vals) ==
    LET steps == DOMAIN vals
    IN  IF Cardinality(steps) >= 2
        THEN RMax(RZero, Get(vals, SetMax(steps)))
        ELSE IF Cardinality(steps) = 1
        THEN (IF SetMin(steps) > 0 THEN Get(vals, SetMin(steps)) ELSE RZero)
        ELSE RZero

\* one step: "if steps[0] >= 0"
CumulativeValAnyStep(vals) ==
    LET steps == DOMAIN vals
    IN  IF Cardinality(steps) >= 2
        THEN RMax(RZero, RSub(Get(vals, SetMax(steps)), Get(vals, SetMin(steps))))
        ELSE IF Cardinality(steps) = 1
        THEN (IF SetMin(steps) >= 0 THEN Get(vals, SetMin(steps)) ELSE RZero)
        ELSE RZero

CumulativeVal(vals) ==
    LET steps == DOMAIN vals
    IN  IF Cardinality(steps) >= 2
        THEN RMax(RZero, RSub(Get(vals, SetMax(steps)), Get(vals, SetMin(steps))))
        ELSE IF Cardinality(steps) = 1
        THEN (IF SetMin(steps) > 0 THEN Get(vals, SetMin(steps)) ELSE RZero)
        ELSE RZero

\* the bucket not clipped to the start of the window
StepContributionUnclipped(vals, step, ss, so, eo) ==
    LET val           == Get(vals, step)
        overlap_start == (step - ss) * TPH
        overlap_end   == Min(step * TPH, eo)
    IN  IF overlap_end > overlap_start
        THEN RMul(val, Rat(overlap_end - overlap_start, ss * TPH))
        ELSE RZero

\* the bucket not clipped to the end of the window
StepContributionOpenEnd(vals, step, ss, so, eo) ==
    LET val           == Get(vals, step)
        overlap_start == Max((step - ss) * TPH, so)
        overlap_end   == step * TPH
    IN  IF overlap_end > overlap_start
        THEN RMul(val, Rat(overlap_end - overlap_start, ss * TPH))
        ELSE RZero

\* one pass of the summing loop: the contribution of lead time step
StepContribution(vals, step, ss, so, eo) ==
    LET val           == Get(vals, step)
        overlap_start == Max((step - ss) * TPH, so)
        overlap_end   == Min(step * TPH, eo)
    IN  IF overlap_end > overlap_start
        THEN RMul(val, Rat(overlap_end - overlap_start, ss * TPH))
        ELSE RZero

RECURSIVE SummingVal(_, _, _, _, _)
SummingVal(steps, vals, ss, so, eo) ==
    IF steps = <<>> THEN RZero
    ELSE RAdd(SummingVal(SubSeq(steps, 1, Len(steps) - 1), vals, ss, so, eo),
              StepContribution(vals, steps[Len(steps)], ss, so, eo))

ForecastVal(model_name, steps, vals, so, eo) ==
    IF is_cumulative(model_name)
    THEN CumulativeVal(vals)
    ELSE SummingVal(steps, vals, step_size(model_name), so, eo)


(***************************************************************************)
(* The forecast store (db.py): table forecasts as the sequence of its rows  *)
(* in insertion order, with its unique index on (location_id, model_name,  *)
(* init_time).                                                             *)
(***************************************************************************)
\* the fields of a datetime on the axis
day(t) == (t - MonthStart[MonthIndex(t)]) \div Day + 1
minute(t) == (t % TPH) \div (60 * TicksPerSecond)
second(t) == (t \div TicksPerSecond) % 60
microsecond(t) == t % TicksPerSecond

\* datetime.isoformat(): "YYYY-MM-DDTHH:MM:SS[.ffffff][+00:00]" as the tuple
\* of its zero-padded fields; tz is "+00:00" for an aware datetime (ingest.py)
\* and "" for a naive one (scraper.py)
isoformat(t, tz) ==
    <<year(t), month(t), day(t), hour(t), minute(t), second(t), microsecond(t), tz>>

\* the order of two such texts as strings (the order of a TEXT column):
\* field by field; at equal seconds "" < "+00:00" < ".ffffff" < ".ffffff+00:00"
TextKey(text) == [j \in 1..8 |-> IF j < 8 THEN text[j]
                                 ELSE IF text[8] = "" THEN 0 ELSE 1]
TextLess(a, b) ==
    \E j \in 1..8 :
        /\ \A k \in 1..(j - 1) : TextKey(a)[k] = TextKey(b)[k]
        /\ TextKey(a)[j] < TextKey(b)[j]
TextLeq(a, b) == a = b \/ TextLess(a, b)

\* plain INSERT: no unique index to resolve a conflict against
save_forecast_insert(store, location_id, model, init_time, observed_mtd, forecast_remainder, partial) ==
    Append(store,
           [location_id        |-> location_id,
            model_name         |-> model,
            init_time          |-> init_time,
            observed_mtd       |-> observed_mtd,
            forecast_remainder |-> forecast_remainder,
            total_proj         |-> RAdd(Or0(observed_mtd), Or0(forecast_remainder)),
            is_partial         |-> partial])

\* total_proj taken from forecast_remainder alone
save_forecast_remainder_only(store, location_id, model, init_time, observed_mtd, forecast_remainder, partial) ==
    LET Keep(r) == ~(/\ r.location_id = location_id
                     /\ r.model_name = model
                     /\ r.init_time = init_time)
    IN  Append(SelectSeq(store, Keep),
               [location_id        |-> location_id,
                model_name         |-> model,
                init_time          |-> init_time,
                observed_mtd       |-> observed_mtd,
                forecast_remainder |-> forecast_remainder,
                total_proj         |-> Or0(forecast_remainder),
                is_partial         |-> partial])

\* a unique index on (location_id, model_name) only: a run replaces the
\* earlier runs of its model
save_forecast_per_model(store, location_id, model, init_time, observed_mtd, forecast_remainder, partial) ==
    LET Keep(r) == ~(/\ r.location_id = location_id
                     /\ r.model_name = model)
    IN  Append(SelectSeq(store, Keep),
               [location_id        |-> location_id,
                model_name         |-> model,
                init_time          |-> init_time,
                observed_mtd       |-> observed_mtd,
                forecast_remainder |-> forecast_remainder,
                total_proj         |-> RAdd(Or0(observed_mtd), Or0(forecast_remainder)),
                is_partial         |-> partial])

\* INSERT OR REPLACE under idx_forecasts_unique: the row in conflict on
\* (location_id, model_name, init_time) is deleted, the new row inserted
save_forecast(store, location_id, model, init_time, observed_mtd, forecast_remainder, partial) ==
    LET total_proj == RAdd(Or0(observed_mtd), Or0(forecast_remainder))
        Keep(r) == ~(/\ r.location_id = location_id
                     /\ r.model_name = model
                     /\ r.init_time = init_time)
    IN  Append(SelectSeq(store, Keep),
               [location_id        |-> location_id,
                model_name         |-> model,
                init_time          |-> init_time,
                observed_mtd       |-> observed_mtd,
                forecast_remainder |-> forecast_remainder,
                total_proj         |-> total_proj,
                is_partial         |-> partial])

\* ORDER BY init_time ASC
get_latest_observation_oldest(store, location_id) ==
    LET rows == {j \in 1..Len(store) :
                    /\ store[j].location_id = location_id
                    /\ store[j].model_name = "NWS_CLI"}
        first == CHOOSE j \in rows :
                    \A k \in rows : TextLeq(store[j].init_time, store[k].init_time)
    IN  IF rows = {} THEN RZero ELSE store[first].observed_mtd

\* SELECT ... WHERE location_id = ? AND model_name = 'NWS_CLI'
\* ORDER BY init_time DESC LIMIT 1; 0.0 without a row
get_latest_observation(store, location_id) ==
    LET rows == {j \in 1..Len(store) :
                    /\ store[j].location_id = location_id
                    /\ store[j].model_name = "NWS_CLI"}
        first == CHOOSE j \in rows :
                    \A k \in rows : TextLeq(store[k].init_time, store[j].init_time)
    IN  IF rows = {} THEN RZero ELSE store[first].observed_mtd

\* the order of the location and model names as strings (binary collation)
SortedLocations == <<"KLAX", "KNYC", "NYC">>
SortedModels == <<"GFS", "NBM", "NWS", "NWS_CLI">>
NameRank(names, name) == CHOOSE j \in 1..Len(names) : names[j] = name

\* the join against MIN(init_time)
get_latest_forecasts_oldest(store) ==
    LET IsOldest(r) ==
            \A k \in 1..Len(store) :
                (store[k].location_id = r.location_id /\ store[k].model_name = r.model_name)
                    => TextLeq(r.init_time, store[k].init_time)
        Before(a, b) ==
            \/ NameRank(SortedLocations, a.location_id) < NameRank(SortedLocations, b.location_id)
            \/ /\ a.location_id = b.location_id
               /\ NameRank(SortedModels, a.model_name) < NameRank(SortedModels, b.model_name)
    IN  SortSeq(SelectSeq(store, IsOldest), Before)

\* SELECT f.* FROM forecasts f INNER JOIN (SELECT location_id, model_name,
\* MAX(init_time) ... GROUP BY location_id, model_name) ... ORDER BY
\* f.location_id, f.model_name
get_latest_forecasts(store) ==
    LET IsLatest(r) ==
            \A k \in 1..Len(store) :
                (store[k].location_id = r.location_id /\ store[k].model_name = r.model_name)
                    => TextLeq(store[k].init_time, r.init_time)
        Before(a, b) ==
            \/ NameRank(SortedLocations, a.location_id) < NameRank(SortedLocations, b.location_id)
            \/ /\ a.location_id = b.location_id
               /\ NameRank(SortedModels, a.model_name) < NameRank(SortedModels, b.model_name)
    IN  SortSeq(SelectSeq(store, IsLatest), Before)

EmptyStore == <<>>

\* a store the scraper has written two NWS_CLI observations of KNYC to
ObservedStore ==
    save_forecast(
        save_forecast(EmptyStore, "KNYC", "NWS_CLI", isoformat(8 * Day, ""),
                      RInt(1), RZero, FALSE),
        "KNYC", "NWS_CLI", isoformat(9 * Day, ""), RInt(2), RZero, FALSE)

\* the entries of the log of store calls
LogGet(location_id, result) ==
    [fn |-> "get_latest_observation", location_id |-> location_id, result |-> result]
LogLatest(result) == [fn |-> "get_latest_forecasts", result |-> result]
LogSave(location_id, model, init_time, observed_mtd, forecast_remainder, partial) ==
    [fn                 |-> "save_forecast",
     location_id        |-> location_id,
     model_name         |-> model,
     init_time          |-> init_time,
     observed_mtd       |-> observed_mtd,
     forecast_remainder |-> forecast_remainder,
     is_partial         |-> partial]

(***************************************************************************)
(* The remote source.  A grid file of lead time step holds, at the cell    *)
(* nearest to a station, a value in mm that the field number determines;   *)
(* values range over -1 .. 2 (slightly negative values are numerical       *)
(* noise of the packing).                                                  *)
(***************************************************************************)
StationIndex(sid) == CHOOSE j \in 1..Len(StationKeys) : StationKeys[j] = sid

GridValue(f, sid, step) == ((f * (step + 1) + StationIndex(sid) + f) % 4) - 1

(***************************************************************************)
(* extract_precip_values.  A dataset is a record: coords, the names of its *)
(* coordinates; dims, the number of dimensions of the latitude coordinate; *)
(* lat and lon, the coordinate values (two axes for 1 dimension, two       *)
(* arrays of rows for 2); data, the values in mm by row and column;        *)
(* raises, the stations whose lookup raises.  Degrees are whole numbers.   *)
(***************************************************************************)
lat_name(ds) ==
    IF "latitude" \in ds.coords THEN "latitude"
    ELSE IF "lat" \in ds.coords THEN "lat" ELSE None

lon_name(ds) ==
    IF "longitude" \in ds.coords THEN "longitude"
    ELSE IF "lon" \in ds.coords THEN "lon" ELSE None

Zeros(stations) == [sid \in DOMAIN stations |-> 0]

\* (ds_lons > 180).any() on an axis, on an array of rows
AnyAbove180(axis) == \E j \in 1..Len(axis) : axis[j] > 180
AnyAbove180Rows(rows) == \E y \in 1..Len(rows) : AnyAbove180(rows[y])

\* .sel(..., method="nearest") along one axis: the position of the nearest
\* label, the larger label at equal distances
NearestOnAxis(axis, target) ==
    CHOOSE j \in 1..Len(axis) :
        \A k \in 1..Len(axis) :
            \/ Abs(axis[j] - target) < Abs(axis[k] - target)
            \/ Abs(axis[j] - target) = Abs(axis[k] - target) /\ axis[j] >= axis[k]

\* the 1-D lookup of one station
Select1D(ds, station) ==
    LET target_lon == IF AnyAbove180(ds.lon) THEN station.lon % 360 ELSE station.lon
    IN  <<NearestOnAxis(ds.lat, station.lat), NearestOnAxis(ds.lon, target_lon)>>

\* the 1-D lookup of one station, the station's longitude used as it is
Select1DSigned(ds, station) ==
    <<NearestOnAxis(ds.lat, station.lat), NearestOnAxis(ds.lon, station.lon)>>

\* the 2-D lookup of one station, the last of the nearest cells taken
Select2DLast(ds, station) ==
    LET lons(y, x) == IF AnyAbove180Rows(ds.lon)
                      THEN ((ds.lon[y][x] + 180) % 360) - 180
                      ELSE ds.lon[y][x]
        dist(y, x) == (ds.lat[y][x] - station.lat) * (ds.lat[y][x] - station.lat)
                      + (lons(y, x) - station.lon) * (lons(y, x) - station.lon)
        cells == {c \in (1..Len(ds.lat)) \X (1..Len(ds.lat[1])) : TRUE}
        After(c, e) == c[1] > e[1] \/ (c[1] = e[1] /\ c[2] >= e[2])
    IN  CHOOSE c \in cells :
            \A e \in cells :
                \/ dist(c[1], c[2]) < dist(e[1], e[2])
                \/ dist(c[1], c[2]) = dist(e[1], e[2]) /\ After(c, e)

\* the 2-D lookup of one station: dist.argmin() and np.unravel_index
Select2D(ds, station) ==
    LET lons(y, x) == IF AnyAbove180Rows(ds.lon)
                      THEN ((ds.lon[y][x] + 180) % 360) - 180
                      ELSE ds.lon[y][x]
        dist(y, x) == (ds.lat[y][x] - station.lat) * (ds.lat[y][x] - station.lat)
                      + (lons(y, x) - station.lon) * (lons(y, x) - station.lon)
        cells == {c \in (1..Len(ds.lat)) \X (1..Len(ds.lat[1])) : TRUE}
        Before(c, e) == c[1] < e[1] \/ (c[1] = e[1] /\ c[2] <= e[2])
    IN  CHOOSE c \in cells :
            \A e \in cells :
                \/ dist(c[1], c[2]) < dist(e[1], e[2])
                \/ dist(c[1], c[2]) = dist(e[1], e[2]) /\ Before(c, e)

ValueAtCell(ds, c) == ds.data[c[1]][c[2]]

\* no coordinates found: an empty mapping
extract_precip_values_empty(ds, stations) ==
    IF lat_name(ds) = None \/ lon_name(ds) = None
    THEN <<>>
    ELSE IF ds.dims = 1
    THEN [sid \in DOMAIN stations |->
             IF sid \in ds.raises THEN 0
             ELSE ValueAtCell(ds, Select1D(ds, stations[sid]))]
    ELSE IF ds.raises \cap DOMAIN stations # {}
    THEN Zeros(stations)
    ELSE [sid \in DOMAIN stations |-> ValueAtCell(ds, Select2D(ds, stations[sid]))]

\* the station's longitude never mapped into 0-360
extract_precip_values_signed(ds, stations) ==
    IF lat_name(ds) = None \/ lon_name(ds) = None
    THEN Zeros(stations)
    ELSE IF ds.dims = 1
    THEN [sid \in DOMAIN stations |->
             IF sid \in ds.raises THEN 0
             ELSE ValueAtCell(ds, Select1DSigned(ds, stations[sid]))]
    ELSE IF ds.raises \cap DOMAIN stations # {}
    THEN Zeros(stations)
    ELSE [sid \in DOMAIN stations |-> ValueAtCell(ds, Select2D(ds, stations[sid]))]

\* 1-D: each station in its own try/except; 2-D: the station loop inside
\* the outer try/except only, which returns 0.0 for every station
extract_precip_values(ds, stations) ==
    IF lat_name(ds) = None \/ lon_name(ds) = None
    THEN Zeros(stations)
    ELSE IF ds.dims = 1
    THEN [sid \in DOMAIN stations |->
             IF sid \in ds.raises THEN 0
             ELSE ValueAtCell(ds, Select1D(ds, stations[sid]))]
    ELSE IF ds.raises \cap DOMAIN stations # {}
    THEN Zeros(stations)
    ELSE [sid \in DOMAIN stations |-> ValueAtCell(ds, Select2D(ds, stations[sid]))]

\* a regular global longitude axis of spacing d, from 0 and from -180
LonAxis360(d) == [k \in 1..(360 \div d) |-> (k - 1) * d]
LonAxis180(d) == [k \in 1..(360 \div d) |-> (k - 1) * d - 180]
\* a latitude axis, north to south
LatAxis == <<45, 40, 35, 30>>

\* the grid file of lead time step under field f: a 1-D grid whose rows
\* nearest to the stations hold GridValue
GridFile(f, step) ==
    [coords |-> {"latitude", "longitude", "time", "step"},
     dims   |-> 1,
     lat    |-> LatAxis,
     lon    |-> LonAxis360(60),
     data   |-> [y \in 1..Len(LatAxis) |-> [x \in 1..6 |->
                    IF y = 2 THEN GridValue(f, "NYC", step)
                    ELSE IF y = 3 THEN GridValue(f, "CLILAX", step)
                    ELSE 0]],
     raises |-> {}]

\* extract_precip_values on the grid file: one value per station of the batch
ExtractPrecipValues(f, step) == extract_precip_values(GridFile(f, step), STATIONS)

\* val * 0.0393701, in units of 0.0393701 in
ToInches(val) == RInt(val)

(***************************************************************************)
(* State.                                                                  *)
(***************************************************************************)
VARIABLES
    MODELS,             \* config.MODELS
    clock,              \* the wall clock
    field,              \* the content of the remote grid files
    faults,             \* environment faults so far
    caller,             \* "main": the batch of __main__; "direct": a call of process_model_run
    pc,                 \* position of the program
    todo,               \* models of the batch still to ingest
    outcome,            \* per model of the batch: how its ingestion ended
    model_name,
    now,
    current_cycle_start,
    i,                  \* loop index of get_latest_run_time
    probes,             \* the existence checks of the current get_latest_run_time call
    latest,             \* what get_latest_run_time returned: <<t>>, or <<>> for nothing
    run_time,
    start_hour_offset,
    end_hour_offset,
    relevant_steps,
    fetched,            \* number of planned steps the step loop has handled
    fetches,            \* what happened to each of them
    values_at_steps,
    is_partial,
    saved,              \* number of stations the station loop has handled
    forecasts,          \* table forecasts
    accumulated,        \* every accumulation so far: what it was given, what it gave
    db_log,             \* every call of save_forecast and get_latest_observation so far
    ds,                 \* the dataset passed to extract_precip_values
    stations,           \* the stations passed to it
    results,            \* what it returned
    writers,            \* per concurrent writer: where its save_forecast call stands
    target_dates,       \* every call of get_forecast_target_date so far
    temperature_forecasts   \* table temperature_forecasts

extract_vars == <<ds, stations, results>>
side_vars == <<writers, target_dates, temperature_forecasts>>
resolver_vars == <<current_cycle_start, i, probes, latest>>
process_vars == <<start_hour_offset, end_hour_offset, relevant_steps,
                  fetched, fetches, values_at_steps, is_partial, saved>>
vars == <<MODELS, clock, field, faults, caller, pc, todo, outcome, model_name,
          now, resolver_vars, run_time, process_vars, forecasts, accumulated,
          db_log, ds, stations, results, side_vars>>

NoDicts == [sid \in DOMAIN STATIONS |-> <<>>]

ExtractReset ==
    /\ ds = <<>>
    /\ stations = STATIONS
    /\ results = <<>>

SideReset ==
    /\ writers = <<>>
    /\ target_dates = <<>>
    /\ temperature_forecasts = <<>>

ProcessReset ==
    /\ start_hour_offset = 0
    /\ end_hour_offset = 0
    /\ relevant_steps = <<>>
    /\ fetched = 0
    /\ fetches = <<>>
    /\ values_at_steps = NoDicts
    /\ is_partial = FALSE
    /\ saved = 0

ResolverReset ==
    /\ current_cycle_start = 0
    /\ i = 0
    /\ probes = <<>>
    /\ latest = <<>>

\* the batch starts within the last hours of November or of December
BatchClocks ==
    {MonthStart[2] - TicksPerSecond - 1,
     MonthStart[2] - (3 * TPH) \div 2,
     MonthStart[3] - (15 * TPH) \div 2}

Init ==
    /\ MODELS \in {ShippedMODELS, ProfileMODELS}
    /\ clock \in BatchClocks
    /\ field \in 0..(MaxField - 1)
    /\ faults = 0
    /\ caller = "main"
    /\ pc = "main"
    /\ todo = BatchModels
    /\ outcome = [m \in ModelNames |-> "pending"]
    /\ model_name = None
    /\ now = 0
    /\ ResolverReset
    /\ run_time = 0
    /\ ProcessReset
    /\ forecasts \in {EmptyStore, ObservedStore}
    /\ accumulated = <<>>
    /\ db_log = <<>>
    /\ ExtractReset
    /\ SideReset

(***************************************************************************)
(* Control transfers.                                                      *)
(***************************************************************************)
\* no except clause: the exception ends the batch
RaiseUncaught(m, exc) ==
    /\ pc' = "raised"
    /\ outcome' = [outcome EXCEPT ![m] = exc]

\* an exception leaves the call: __main__ catches it, logs and goes on with
\* the next model; a direct caller receives it
Raise(m, exc) ==
    /\ pc' = IF caller = "main" THEN "main" ELSE "raised"
    /\ outcome' = [outcome EXCEPT ![m] = exc]

\* process_model_run returns
Return(m, how) ==
    /\ pc' = IF caller = "main" THEN "main" ELSE "returned"
    /\ outcome' = [outcome EXCEPT ![m] = how]

\* datetime.now(timezone.utc) in process_model_run: the clock may have advanced
\* by a tick since get_latest_run_time read it
ClockSteps == {0, 1}
ClockReads == {t \in {clock + d : d \in ClockSteps} : t < MonthStart[3]}

FaultAllowed == caller = "direct" \/ faults < MaxFaults

(***************************************************************************)
(* __main__ takes the next model and calls get_latest_run_time, which      *)
(* reads the clock, looks the model up and computes the first candidate.   *)
(***************************************************************************)
MainNext ==
    /\ pc = "main"
    /\ caller = "main"
    /\ todo # <<>>
    /\ LET m == Head(todo)
            t == clock
        IN  /\ model_name' = m
            /\ todo' = Tail(todo)
            /\ now' = t
            /\ i' = 0
            /\ probes' = <<>>
            /\ latest' = <<>>
            /\ IF MODELS[m].kind = "None"
               THEN \* if not config: raise ValueError
                    /\ Raise(m, "ValueError")
                    /\ UNCHANGED current_cycle_start
               ELSE IF MODELS[m].kind = "str"
               THEN \* config['bucket'] of a str: TypeError
                    /\ Raise(m, "TypeError")
                    /\ UNCHANGED current_cycle_start
               ELSE /\ current_cycle_start' = CycleStart(m, t)
                    /\ pc' = "probe"
                    /\ outcome' = [outcome EXCEPT ![m] = "resolving"]
    /\ UNCHANGED <<MODELS, clock, field, faults, caller, run_time, process_vars,
                   forecasts, accumulated, db_log, extract_vars, side_vars>>

(***************************************************************************)
(* One pass of the loop of get_latest_run_time: s3.head_object on the      *)
(* first file of candidate i.  It succeeds, raises ClientError (no such    *)
(* key), or raises another exception (no connection, ...).                 *)
(***************************************************************************)
\* A run that is not the newest candidate is an adversity of the environment
\* like a failed fetch: the first miss of a call counts as one fault.
ProbeResults(j) ==
    (IF j > 0 \/ FaultAllowed THEN {"ClientError"} ELSE {})
        \cup (IF j < MaxLag THEN {"ok"} ELSE {})
        \cup (IF FaultAllowed THEN {"Error"} ELSE {})

Probe ==
    /\ pc = "probe"
    /\ \E r \in ProbeResults(i) :
        LET t == Candidate(model_name, current_cycle_start, i)
        IN  /\ probes' = Append(probes, [t |-> t, result |-> r])
            /\ IF r = "ok"
               THEN \* return t; __main__ calls process_model_run(model, latest)
                    /\ latest' = <<t>>
                    /\ run_time' = t
                    /\ pc' = "process"
                    /\ outcome' = [outcome EXCEPT ![model_name] = "resolved"]
                    /\ UNCHANGED <<i, faults>>
               ELSE IF r = "ClientError"
               THEN /\ UNCHANGED <<latest, run_time>>
                    /\ faults' = IF i = 0 THEN faults + 1 ELSE faults
                    /\ IF i + 1 < ProbeCount
                       THEN \* continue
                            /\ i' = i + 1
                            /\ UNCHANGED <<pc, outcome>>
                       ELSE \* the loop ends: raise RuntimeError
                            /\ i' = i
                            /\ Raise(model_name, "RuntimeError")
               ELSE \* an exception other than ClientError is not caught here
                    /\ faults' = faults + 1
                    /\ Raise(model_name, "ProbeError")
                    /\ UNCHANGED <<i, latest, run_time>>
    /\ UNCHANGED <<MODELS, clock, field, caller, todo, model_name, now,
                   current_cycle_start, start_hour_offset, end_hour_offset,
                   relevant_steps, fetched, fetches, values_at_steps,
                   is_partial, saved, forecasts, accumulated, db_log, extract_vars, side_vars>>

(***************************************************************************)
(* process_model_run up to the step loop: the window and the plan.         *)
(***************************************************************************)
\* the step loop has ended: cleanup, then is_partial
AfterLoop(eo) ==
    /\ pc' = "save"
    /\ is_partial' = IsPartial(model_name, eo)

ProcessStart ==
    /\ pc = "process"
    /\ fetched' = 0
    /\ fetches' = <<>>
    /\ saved' = 0
    /\ values_at_steps' = NoDicts
    /\ IF MODELS[model_name].kind = "None"
       THEN \* MODELS[model_name]: KeyError
            /\ Raise(model_name, "KeyError")
            /\ UNCHANGED <<now, clock, start_hour_offset, end_hour_offset,
                           relevant_steps, is_partial>>
       ELSE IF MODELS[model_name].kind = "str"
       THEN /\ Raise(model_name, "TypeError")
            /\ UNCHANGED <<now, clock, start_hour_offset, end_hour_offset,
                           relevant_steps, is_partial>>
       ELSE \E t \in ClockReads :
            /\ now' = t
            /\ clock' = t
            /\ IF t > month_end(t)
               THEN \* "Current time is past month end."
                    /\ Return(model_name, "past_month_end")
                    /\ UNCHANGED <<start_hour_offset, end_hour_offset,
                                   relevant_steps, is_partial>>
               ELSE LET so == StartOffset(run_time, t)
                        eo == EndOffset(run_time, t)
                        plan == RelevantSteps(model_name, so, eo)
                    IN  /\ start_hour_offset' = so
                        /\ end_hour_offset' = eo
                        /\ relevant_steps' = plan
                        /\ outcome' = [outcome EXCEPT ![model_name] = "processing"]
                        /\ IF plan = <<>>
                           THEN AfterLoop(eo)
                           ELSE /\ pc' = "fetch"
                                /\ is_partial' = FALSE
    /\ UNCHANGED <<MODELS, field, faults, caller, todo, model_name,
                   resolver_vars, run_time, forecasts, accumulated, db_log, extract_vars, side_vars>>

(***************************************************************************)
(* One pass of the step loop: download_grib_file, open_precip_dataset,     *)
(* extract_precip_values, conversion to inches.                            *)
(***************************************************************************)
FetchResults ==
    {"ok"} \cup (IF FaultAllowed
                 THEN {"download_failed", "no_precip", "download_error"}
                 ELSE {})

FetchStep ==
    /\ pc = "fetch"
    /\ \E r \in FetchResults :
        LET step == relevant_steps[fetched + 1]
            batch_vals == ExtractPrecipValues(field, step)
        IN  /\ fetches' = Append(fetches, [step |-> step, result |-> r])
            /\ fetched' = fetched + 1
            /\ faults' = IF r = "ok" THEN faults ELSE faults + 1
            /\ values_at_steps' =
                 IF r = "ok"
                 THEN [sid \in DOMAIN STATIONS |->
                          (step :> ToInches(batch_vals[sid])) @@ values_at_steps[sid]]
                 ELSE values_at_steps
            /\ IF r = "download_error"
               THEN \* s3.download_file raised something other than ClientError
                    /\ Raise(model_name, "DownloadError")
                    /\ UNCHANGED is_partial
               ELSE IF fetched + 1 = Len(relevant_steps)
               THEN /\ AfterLoop(end_hour_offset)
                    /\ UNCHANGED outcome
               ELSE UNCHANGED <<pc, outcome, is_partial>>
    /\ UNCHANGED <<MODELS, clock, field, caller, todo, model_name, now,
                   resolver_vars, run_time, start_hour_offset, end_hour_offset,
                   relevant_steps, saved, forecasts, accumulated, db_log, extract_vars, side_vars>>

(***************************************************************************)
(* One pass of the station loop: accumulate, read the latest observation,  *)
(* write the forecast record.                                              *)
(***************************************************************************)
SaveResults == {"ok"} \cup (IF FaultAllowed THEN {"StoreError"} ELSE {})

\* "forecast_val = 0.0" before the station loop instead of inside it
SaveStationCarried ==
    /\ pc = "save"
    /\ \E r \in SaveResults :
        LET sid == StationKeys[saved + 1]
            station == STATIONS[sid]
            forecast_val == RAdd(ForecastVal(model_name, relevant_steps,
                                             values_at_steps[sid],
                                             start_hour_offset, end_hour_offset),
                                 IF saved = 0 THEN RZero
                                 ELSE accumulated[Len(accumulated)].forecast_val)
            observed == get_latest_observation(forecasts, station.id)
        IN  /\ accumulated' = Append(accumulated,
                                     [model_name |-> model_name,
                                      relevant_steps |-> relevant_steps,
                                      values |-> values_at_steps[sid],
                                      start_hour_offset |-> start_hour_offset,
                                      end_hour_offset |-> end_hour_offset,
                                      forecast_val |-> forecast_val,
                                      is_partial |-> is_partial])
            /\ db_log' = db_log \o <<LogGet(station.id, observed)>> \o
                            (IF r = "ok"
                             THEN <<LogSave(station.id, model_name,
                                            isoformat(run_time, "+00:00"), observed,
                                            forecast_val, is_partial)>>
                             ELSE <<>>)
            /\ IF r = "ok"
               THEN /\ forecasts' = save_forecast(forecasts, station.id, model_name,
                                                  isoformat(run_time, "+00:00"),
                                                  observed, forecast_val, is_partial)
                    /\ saved' = saved + 1
                    /\ UNCHANGED faults
                    /\ IF saved + 1 = Len(StationKeys)
                       THEN Return(model_name, "done")
                       ELSE UNCHANGED <<pc, outcome>>
               ELSE \* sqlite3 raised (database locked, ...)
                    /\ faults' = faults + 1
                    /\ Raise(model_name, "StoreError")
                    /\ UNCHANGED <<forecasts, saved>>
    /\ UNCHANGED <<MODELS, clock, field, caller, todo, model_name, now,
                   resolver_vars, run_time, start_hour_offset, end_hour_offset,
                   relevant_steps, fetched, fetches, values_at_steps, is_partial,
                   extract_vars, side_vars>>

SaveStation ==
    /\ pc = "save"
    /\ \E r \in SaveResults :
        LET sid == StationKeys[saved + 1]
            station == STATIONS[sid]
            forecast_val == ForecastVal(model_name, relevant_steps,
                                        values_at_steps[sid],
                                        start_hour_offset, end_hour_offset)
            observed == get_latest_observation(forecasts, station.id)
        IN  /\ accumulated' = Append(accumulated,
                                     [model_name |-> model_name,
                                      relevant_steps |-> relevant_steps,
                                      values |-> values_at_steps[sid],
                                      start_hour_offset |-> start_hour_offset,
                                      end_hour_offset |-> end_hour_offset,
                                      forecast_val |-> forecast_val,
                                      is_partial |-> is_partial])
            /\ db_log' = db_log \o <<LogGet(station.id, observed)>> \o
                            (IF r = "ok"
                             THEN <<LogSave(station.id, model_name,
                                            isoformat(run_time, "+00:00"), observed,
                                            forecast_val, is_partial)>>
                             ELSE <<>>)
            /\ IF r = "ok"
               THEN /\ forecasts' = save_forecast(forecasts, station.id, model_name,
                                                  isoformat(run_time, "+00:00"),
                                                  observed, forecast_val, is_partial)
                    /\ saved' = saved + 1
                    /\ UNCHANGED faults
                    /\ IF saved + 1 = Len(StationKeys)
                       THEN Return(model_name, "done")
                       ELSE UNCHANGED <<pc, outcome>>
               ELSE \* sqlite3 raised (database locked, ...)
                    /\ faults' = faults + 1
                    /\ Raise(model_name, "StoreError")
                    /\ UNCHANGED <<forecasts, saved>>
    /\ UNCHANGED <<MODELS, clock, field, caller, todo, model_name, now,
                   resolver_vars, run_time, start_hour_offset, end_hour_offset,
                   relevant_steps, fetched, fetches, values_at_steps, is_partial,
                   extract_vars, side_vars>>

Next == MainNext \/ Probe \/ ProcessStart \/ FetchStep \/ SaveStation

Spec == Init /\ [][Next]_vars

(***************************************************************************)
(* process_model_run called on its own, for any model and run time: the    *)
(* run starts RunLeads half hours before 1 December and is RunAges half    *)
(* hours old at the call (a negative age is a run time in the future).     *)
(***************************************************************************)
HalfHour == TPH \div 2
RunLeads == {1, 5, 12, 26, 100, 170, 490, 800}
RunAges == {-2, 0, 1, 5, 14, 95, 96, 98, 168, 480, 760, 768}

DirectRuns == {MonthStart[2] - l * HalfHour : l \in RunLeads}
DirectClocks(rt) ==
    {t \in {rt + a * HalfHour : a \in RunAges} \cup {MonthStart[2] - 1} :
        t >= 0 /\ t + 1 < MonthStart[3]}

InitRun ==
    /\ MODELS \in {ShippedMODELS, ProfileMODELS}
    /\ field \in 0..(MaxField - 1)
    /\ faults = 0
    /\ caller = "direct"
    /\ pc = "process"
    /\ todo = <<>>
    /\ outcome = [m \in ModelNames |-> "pending"]
    /\ model_name \in ModelNames
    /\ now = 0
    /\ ResolverReset
    /\ run_time \in DirectRuns
    /\ clock \in DirectClocks(run_time)
    /\ \A t \in ClockReads :
          Len(RelevantSteps(model_name, StartOffset(run_time, t),
                            EndOffset(run_time, t))) <= MaxPlan
    /\ ProcessReset
    /\ forecasts \in {EmptyStore, ObservedStore}
    /\ accumulated = <<>>
    /\ db_log = <<>>
    /\ ExtractReset
    /\ SideReset

NextRun == ProcessStart \/ FetchStep \/ SaveStation

SpecRun == InitRun /\ [][NextRun]_vars

(***************************************************************************)
(* The accumulation on its own: process_model_run at the last pass of its  *)
(* step loop, for any values the earlier passes may have recovered (the    *)
(* grid files may hold any value; AccValues are the values in mm tried).   *)
(***************************************************************************)
AccValues == {-1, 0, 1}

InitAccumulate ==
    /\ MODELS = ProfileMODELS
    /\ field \in 0..(MaxField - 1)
    /\ faults = 0
    /\ caller = "direct"
    /\ pc = "fetch"
    /\ todo = <<>>
    /\ model_name \in ModelNames
    /\ outcome = [m \in ModelNames |->
                     IF m = model_name THEN "processing" ELSE "pending"]
    /\ ResolverReset
    /\ run_time \in DirectRuns
    /\ clock \in DirectClocks(run_time)
    /\ now = clock
    /\ ~(now > month_end(now))
    /\ start_hour_offset = StartOffset(run_time, now)
    /\ end_hour_offset = EndOffset(run_time, now)
    /\ relevant_steps = RelevantSteps(model_name, start_hour_offset, end_hour_offset)
    /\ Len(relevant_steps) \in 1..MaxAccPlan
    /\ fetched = Len(relevant_steps) - 1
    /\ \E recovered \in SUBSET {relevant_steps[j] : j \in 1..fetched} :
          /\ fetches = [j \in 1..fetched |->
                           [step   |-> relevant_steps[j],
                            result |-> IF relevant_steps[j] \in recovered
                                       THEN "ok" ELSE "download_failed"]]
          /\ values_at_steps \in
                [DOMAIN STATIONS -> [recovered -> {ToInches(v) : v \in AccValues}]]
    /\ is_partial = FALSE
    /\ saved = 0
    /\ forecasts \in {EmptyStore, ObservedStore}
    /\ accumulated = <<>>
    /\ db_log = <<>>
    /\ ExtractReset
    /\ SideReset

NextAccumulate == FetchStep \/ SaveStation

SpecAccumulate == InitAccumulate /\ [][NextAccumulate]_vars

(***************************************************************************)
(* The store on its own (db.py): after init_db, its clients call           *)
(* save_forecast and get_latest_observation in any order, with any         *)
(* arguments: the scraper with naive texts, the ingestion with aware ones. *)
(***************************************************************************)
StoreLocations == {STATIONS[sid].id : sid \in DOMAIN STATIONS}
StoreModels == {"NWS_CLI", "GFS"}
\* datetime.utcnow().isoformat() of the scraper, run_time.isoformat() of the
\* ingestion
StoreTimes(model) ==
    IF model = "NWS_CLI"
    THEN {isoformat(MonthStart[2] - 1, ""), isoformat(MonthStart[2], "")}
    ELSE {isoformat(MonthStart[2] - 6 * TPH, "+00:00"), isoformat(MonthStart[2], "+00:00")}
\* <<observed_mtd, forecast_remainder, is_partial>>
StoreValues ==
    {<<RNone, RInt(1), TRUE>>, <<RInt(1), RZero, FALSE>>, <<RInt(2), RNone, FALSE>>}

InitStore ==
    /\ MODELS = ShippedMODELS
    /\ clock = 0
    /\ field = 0
    /\ faults = 0
    /\ caller = "direct"
    /\ pc = "db"
    /\ todo = <<>>
    /\ outcome = [m \in ModelNames |-> "pending"]
    /\ model_name = None
    /\ now = 0
    /\ ResolverReset
    /\ run_time = 0
    /\ ProcessReset
    /\ forecasts = EmptyStore
    /\ accumulated = <<>>
    /\ db_log = <<>>
    /\ ExtractReset
    /\ SideReset

SaveForecastCall ==
    /\ pc = "db"
    /\ Len(db_log) < MaxCalls
    /\ \E location_id \in StoreLocations, model \in StoreModels, v \in StoreValues :
       \E init_time \in StoreTimes(model) :
          /\ forecasts' = save_forecast(forecasts, location_id, model, init_time,
                                        v[1], v[2], v[3])
          /\ db_log' = Append(db_log, LogSave(location_id, model, init_time,
                                              v[1], v[2], v[3]))
    /\ UNCHANGED <<MODELS, clock, field, faults, caller, pc, todo, outcome,
                   model_name, now, resolver_vars, run_time, process_vars,
                   accumulated, extract_vars, side_vars>>

GetLatestObservationCall ==
    /\ pc = "db"
    /\ Len(db_log) < MaxCalls
    /\ \E location_id \in StoreLocations :
          db_log' = Append(db_log,
                           LogGet(location_id,
                                  get_latest_observation(forecasts, location_id)))
    /\ UNCHANGED <<MODELS, clock, field, faults, caller, pc, todo, outcome,
                   model_name, now, resolver_vars, run_time, process_vars,
                   forecasts, accumulated, extract_vars, side_vars>>

GetLatestForecastsCall ==
    /\ pc = "db"
    /\ Len(db_log) < MaxCalls
    /\ db_log' = Append(db_log, LogLatest(get_latest_forecasts(forecasts)))
    /\ UNCHANGED <<MODELS, clock, field, faults, caller, pc, todo, outcome,
                   model_name, now, resolver_vars, run_time, process_vars,
                   forecasts, accumulated, extract_vars, side_vars>>

NextStore == SaveForecastCall \/ GetLatestObservationCall \/ GetLatestForecastsCall

SpecStore == InitStore /\ [][NextStore]_vars

(***************************************************************************)
(* extract_precip_values on its own, for datasets with and without         *)
(* recognisable coordinate names, on 1-D global grids and on 2-D regional  *)
(* grids in either longitude convention, with lookups that raise.  Every   *)
(* cell holds a value of its own: 360 * latitude + longitude in 0-360.     *)
(***************************************************************************)
GridSpacings == {2, 3, 60}

CellValue(la, lo) == 360 * la + (lo % 360)

Dataset1D(axis) ==
    [dims |-> 1,
     lat  |-> LatAxis,
     lon  |-> axis,
     data |-> [y \in 1..Len(LatAxis) |-> [x \in 1..Len(axis) |->
                  CellValue(LatAxis[y], axis[x])]]]

Dataset2D(lats, lons) ==
    [dims |-> 2,
     lat  |-> lats,
     lon  |-> lons,
     data |-> [y \in 1..Len(lats) |-> [x \in 1..Len(lats[1]) |->
                  CellValue(lats[y][x], lons[y][x])]]]

\* a coarse regional grid, and a fine one with cells at equal distances
\* from a station
RegionalLats == << <<32, 33, 32>>, <<42, 43, 42>> >>
RegionalLons == << <<-120, -96, -74>>, <<-122, -96, -72>> >>
LocalLats == << <<33, 35>>, <<35, 33>> >>
LocalLons == << <<-119, -119>>, <<-117, -121>> >>

In360(rows) == [y \in 1..Len(rows) |-> [x \in 1..Len(rows[y]) |-> rows[y][x] % 360]]

Grids ==
    {Dataset1D(LonAxis360(d)) : d \in GridSpacings}
    \cup {Dataset1D(LonAxis180(d)) : d \in GridSpacings}
    \cup {Dataset2D(RegionalLats, RegionalLons), Dataset2D(RegionalLats, In360(RegionalLons)),
          Dataset2D(LocalLats, LocalLons), Dataset2D(LocalLats, In360(LocalLons))}

CoordNames ==
    {lats \cup lons \cup {"time"} :
        lats \in {{"latitude"}, {"lat"}, {}}, lons \in {{"longitude"}, {"lon"}, {}}}

\* the stations of the batch, or two stations one of which is at -119
StationSets ==
    {STATIONS,
     [NYC |-> STATIONS["NYC"], P119 |-> [id |-> "P119", lat |-> 34, lon |-> -119,
                                                timezone |-> "America/Los_Angeles"]]}

InitExtract ==
    /\ MODELS = ShippedMODELS
    /\ clock = 0
    /\ field = 0
    /\ faults = 0
    /\ caller = "direct"
    /\ pc = "extract"
    /\ todo = <<>>
    /\ outcome = [m \in ModelNames |-> "pending"]
    /\ model_name = None
    /\ now = 0
    /\ ResolverReset
    /\ run_time = 0
    /\ ProcessReset
    /\ forecasts = EmptyStore
    /\ accumulated = <<>>
    /\ db_log = <<>>
    /\ stations \in StationSets
    /\ \E grid \in Grids, names \in CoordNames, failing \in SUBSET DOMAIN stations :
          ds = [coords |-> names, dims |-> grid.dims, lat |-> grid.lat,
                lon |-> grid.lon, data |-> grid.data, raises |-> failing]
    /\ results = <<>>
    /\ SideReset

Extract ==
    /\ pc = "extract"
    /\ results' = extract_precip_values(ds, stations)
    /\ pc' = "extracted"
    /\ UNCHANGED <<MODELS, clock, field, faults, caller, todo, outcome,
                   model_name, now, resolver_vars, run_time, process_vars,
                   forecasts, accumulated, db_log, ds, stations, side_vars>>

NextExtract == Extract

SpecExtract == InitExtract /\ [][NextExtract]_vars

(***************************************************************************)
(* Vocabulary of the properties.                                           *)
(***************************************************************************)
\* the program is inside get_latest_run_time or process_model_run
InCall == pc \in {"probe", "process", "fetch", "save"}

\* the batch has gone through its list
BatchDone == caller = "main" /\ pc = "main" /\ todo = <<>>

\* how many models of the batch have been taken
Taken == Len(BatchModels) - Len(todo)

Failures == {"ValueError", "TypeError", "KeyError", "RuntimeError", "ProbeError",
             "DownloadError", "StoreError"}

(***************************************************************************)
(* C1.  get_latest_run_time probes the candidates in order, from the most  *)
(* recent cycle boundary backward, one cycle interval apart; every probe   *)
(* before the last one has failed with "no such key"; the run it returns   *)
(* is the candidate of the last probe, which succeeded, so it is the most  *)
(* recent candidate that exists, and nothing is probed after a success.    *)
(***************************************************************************)
C1_FirstExistingRun ==
    LET n == Len(probes)
    IN  /\ \A j \in 1..n :
              probes[j].t = current_cycle_start
                              - (j - 1) * cycle_step(model_name) * TPH
        /\ \A j \in 1..(n - 1) : probes[j].result = "ClientError"
        /\ latest # <<>> =>
              /\ n \in 1..12
              /\ probes[n].result = "ok"
              /\ latest = <<probes[n].t>>
        /\ (n >= 1 /\ probes[n].result = "ok") =>
              /\ latest = <<probes[n].t>>
              /\ pc # "probe"

\* a run found at the second candidate, after the first was missing
C1_Witness ==
    /\ latest # <<>>
    /\ Len(probes) = 2
    /\ probes[1].result = "ClientError"
    /\ latest[1] < current_cycle_start

(***************************************************************************)
(* C2.  When the existence check fails for all 12 candidates, the call     *)
(* ends with RuntimeError ("Could not find any recent runs") and returns   *)
(* nothing; that outcome arises only after exactly 12 failed probes; there *)
(* is never a 13th probe; and every probe either ends the call or moves    *)
(* to the next candidate, so the loop terminates.                          *)
(***************************************************************************)
AllMissing ==
    /\ Len(probes) = 12
    /\ \A j \in 1..12 : probes[j].result = "ClientError"

C2_Exhausted ==
    /\ Len(probes) <= 12
    /\ pc = "probe" => i = Len(probes) /\ i < 12
    /\ AllMissing =>
          /\ pc # "probe"
          /\ latest = <<>>
          /\ outcome[model_name] = "RuntimeError"
    /\ (model_name # None /\ outcome[model_name] = "RuntimeError") => AllMissing

C2_NoRunAvailable ==
    /\ []C2_Exhausted
    /\ [][pc = "probe" => (pc' # "probe" \/ i' = i + 1)]_vars

C2_Witness == AllMissing /\ outcome[model_name] = "RuntimeError"

(***************************************************************************)
(* C3.  Whenever no call is in progress the batch is at the head of its    *)
(* loop, whatever happened to the models taken so far: each of them has    *)
(* ended (done, skipped or failed), the others are still to come, and so   *)
(* at the end of the batch every model has been resolved and, when its     *)
(* run was found, processed.                                               *)
(***************************************************************************)
C3_FailureIsolated ==
    /\ ~InCall => pc = "main"
    /\ pc = "main" =>
          \A j \in 1..Len(BatchModels) :
              IF j <= Taken
              THEN outcome[BatchModels[j]] \in Failures \cup {"done", "past_month_end"}
              ELSE outcome[BatchModels[j]] = "pending"
    /\ BatchDone => \A m \in ModelNames : outcome[m] # "pending"

\* the first model failed, and the last one was still ingested
C3_Witness ==
    /\ BatchDone
    /\ outcome["GFS"] \in Failures
    /\ outcome["HRRR"] = "done"

(***************************************************************************)
(* The window and the plan, as the statements about them word it.          *)
(***************************************************************************)
\* the locals of process_model_run hold the window and the plan of model_name
Planned ==
    \/ pc \in {"fetch", "save"}
    \/ /\ model_name \in ModelNames
       /\ outcome[model_name] \in {"done", "DownloadError", "StoreError"}

Cumulative == model_name \in ModelNames /\ is_cumulative(model_name)
Incremental == model_name \in ModelNames /\ ~is_cumulative(model_name)

\* the last second of the month of instant t
LastSecondOfMonth(t) ==
    SetMin({b \in {MonthStart[j] : j \in 1..Len(MonthStart)} : b > t})
        - TicksPerSecond

\* start_offset = max(run_time, now) - run_time; end_offset = month_end - run_time
WindowStart == (IF run_time >= now THEN run_time ELSE now) - run_time
WindowEnd == LastSecondOfMonth(now) - run_time

\* the multiple h of ss hours with h <= off < h + ss (off in ticks)
RoundedDown(off, ss) ==
    LET q == (off \div TPH) \div ss
    IN  CHOOSE h \in {ss * k : k \in (q - 1)..(q + 1)} :
            h * TPH <= off /\ off < (h + ss) * TPH

Horizon == max_forecast_hour(model_name)
StepHours == step_size(model_name)

Elements(seq) == {seq[j] : j \in 1..Len(seq)}
Ascending(seq) == \A j \in 1..(Len(seq) - 1) : seq[j] < seq[j + 1]

(***************************************************************************)
(* C4, as stated.  The plan of a cumulative model is empty if and only if  *)
(* the start offset rounded down to a multiple of the step size is         *)
(* strictly greater than the max horizon.                                  *)
(***************************************************************************)
C4_EmptyIffExceeds ==
    (Cumulative /\ Planned) =>
        (relevant_steps = <<>> <=> RoundedDown(WindowStart, StepHours) > Horizon)

(***************************************************************************)
(* C4, amended.  The plan of a cumulative model is empty if and only if    *)
(* the start offset rounded down to a multiple of the step size is greater *)
(* than or equal to the max horizon.                                       *)
(***************************************************************************)
C4_EmptyIffReaches ==
    (Cumulative /\ Planned) =>
        (relevant_steps = <<>> <=> RoundedDown(WindowStart, StepHours) >= Horizon)

\* a rounded start offset equal to the horizon: the plan is empty
C4_Witness ==
    /\ Cumulative
    /\ Planned
    /\ RoundedDown(WindowStart, StepHours) = Horizon
    /\ relevant_steps = <<>>

(***************************************************************************)
(* C5.  A non-empty plan of a cumulative model is the set                  *)
(* {rounded start, min(rounded end, max horizon)} in ascending order, one  *)
(* element when the two are equal, and nothing else.                       *)
(***************************************************************************)
C5_TwoEndpoints ==
    (Cumulative /\ Planned /\ relevant_steps # <<>>) =>
        LET a == RoundedDown(WindowStart, StepHours)
            b == IF RoundedDown(WindowEnd, StepHours) <= Horizon
                 THEN RoundedDown(WindowEnd, StepHours) ELSE Horizon
        IN  /\ Elements(relevant_steps) = {a, b}
            /\ Ascending(relevant_steps)
            /\ Len(relevant_steps) = Cardinality({a, b})

\* both endpoints planned, a start after lead time 0 and an end clamped to the horizon
C5_Witness ==
    /\ Cumulative
    /\ Planned
    /\ Len(relevant_steps) = 2
    /\ relevant_steps[1] > 0
    /\ relevant_steps[2] = Horizon
    /\ RoundedDown(WindowEnd, StepHours) > Horizon

(***************************************************************************)
(* C6.  The plan of an incremental model holds exactly the multiples h of  *)
(* the step size with step <= h <= max horizon whose bucket [h - step, h]  *)
(* overlaps the window: h > start offset and h - step < end offset; in     *)
(* ascending order.                                                        *)
(***************************************************************************)
C6_OverlappingBuckets ==
    (Incremental /\ Planned) =>
        /\ Elements(relevant_steps) =
              {h \in StepHours..Horizon :
                  /\ h % StepHours = 0
                  /\ h * TPH > WindowStart
                  /\ (h - StepHours) * TPH < WindowEnd}
        /\ Ascending(relevant_steps)

\* several buckets planned, the window starting inside the first one
C6_Witness ==
    /\ Incremental
    /\ Planned
    /\ Len(relevant_steps) >= 2
    /\ (relevant_steps[1] - StepHours) * TPH < WindowStart
    /\ relevant_steps[Len(relevant_steps)] * TPH > WindowEnd

(***************************************************************************)
(* The remainder written for a station, as the statements about the        *)
(* accumulator word it.                                                    *)
(***************************************************************************)
\* the record of station sid of this run has been written
Stored(sid) == Planned /\ StationIndex(sid) <= saved

\* the remainder of that record
RowOf(location_id, model, init_time) ==
    forecasts[CHOOSE j \in 1..Len(forecasts) :
                 /\ forecasts[j].location_id = location_id
                 /\ forecasts[j].model_name = model
                 /\ forecasts[j].init_time = init_time]

Remainder(sid) ==
    RowOf(STATIONS[sid].id, model_name, isoformat(run_time, "+00:00")).forecast_remainder

\* the lead times recovered: downloaded, decoded and extracted
Recovered == {fetches[j].step : j \in {k \in 1..Len(fetches) : fetches[k].result = "ok"}}

\* the value recovered for station sid at lead time h
ValueAt(sid, h) == values_at_steps[sid][h]

Negative(r) == ~RLeq(RZero, r)

(***************************************************************************)
(* C7.  For a cumulative model and a station with at least two recovered   *)
(* lead times, the remainder is max(0, value at the largest recovered lead *)
(* time - value at the smallest); recovered steps {6, 168} with values     *)
(* {0.10, 1.35} give 1.25.                                                 *)
(***************************************************************************)
C7_LastMinusFirst ==
    /\ \A sid \in DOMAIN STATIONS :
          (Cumulative /\ Stored(sid) /\ Cardinality(Recovered) >= 2) =>
              LET first == CHOOSE h \in Recovered : \A g \in Recovered : h <= g
                  last  == CHOOSE h \in Recovered : \A g \in Recovered : h >= g
                  delta == RSub(ValueAt(sid, last), ValueAt(sid, first))
              IN  Remainder(sid) = IF Negative(delta) THEN RZero ELSE delta
    /\ CumulativeVal((6 :> Rat(10, 100)) @@ (168 :> Rat(135, 100))) = Rat(125, 100)

\* two lead times recovered: one station with a positive difference, the
\* other with a negative one written as 0
C7_Witness ==
    /\ Cumulative
    /\ Cardinality(Recovered) = 2
    /\ \E sid, other \in DOMAIN STATIONS :
          /\ Stored(sid)
          /\ Stored(other)
          /\ Remainder(sid) # RZero
          /\ Negative(RSub(ValueAt(other, SetMax(Recovered)),
                           ValueAt(other, SetMin(Recovered))))
          /\ Remainder(other) = RZero

(***************************************************************************)
(* C8.  For a cumulative model and a station with exactly one recovered    *)
(* lead time s, the remainder is the recovered value if s > 0 and 0 if     *)
(* s = 0; with no recovered lead time the remainder is 0.                  *)
(***************************************************************************)
C8_SingleStep ==
    \A sid \in DOMAIN STATIONS :
        (Cumulative /\ Stored(sid)) =>
            /\ Recovered = {} => Remainder(sid) = RZero
            /\ \A s \in Recovered :
                  Recovered = {s} =>
                      Remainder(sid) = IF s > 0 THEN ValueAt(sid, s) ELSE RZero

\* only lead time 0 recovered, with a value that is not 0: the remainder is 0
C8_Witness ==
    /\ Cumulative
    /\ Recovered = {0}
    /\ \E sid \in DOMAIN STATIONS :
          /\ Stored(sid)
          /\ ValueAt(sid, 0) # RZero
          /\ Remainder(sid) = RZero

(***************************************************************************)
(* C9.  For every station and every cumulative model, the remainder        *)
(* written to the store is >= 0, whatever steps were recovered and         *)
(* whatever values were extracted, negative ones included.                 *)
(***************************************************************************)
C9_NonNegative ==
    \A sid \in DOMAIN STATIONS :
        (Cumulative /\ Stored(sid)) => RLeq(RZero, Remainder(sid))

(***************************************************************************)
(* C10.  For an incremental model the remainder is the sum over the        *)
(* planned steps h of v_h * overlap_h / step size, with                    *)
(* overlap_h = max(0, min(h, end) - max(h - step, start)) and v_h = 0 for  *)
(* a planned step that was not recovered; step 1 h, horizon 48 h and       *)
(* window [0.5 h, 2.5 h] give steps {1, 2, 3} with overlaps                *)
(* {0.5, 1.0, 0.5}.                                                        *)
(***************************************************************************)
\* overlap of bucket [h - step, h] with the window, in ticks
Overlap(h) ==
    LET from == IF (h - StepHours) * TPH >= WindowStart
                THEN (h - StepHours) * TPH ELSE WindowStart
        to   == IF h * TPH <= WindowEnd THEN h * TPH ELSE WindowEnd
    IN  IF to - from >= 0 THEN to - from ELSE 0

RECURSIVE WeightedSum(_, _)
WeightedSum(hs, sid) ==
    IF hs = {} THEN RZero
    ELSE LET h == CHOOSE g \in hs : TRUE
             v == IF h \in Recovered THEN ValueAt(sid, h) ELSE RZero
         IN  RAdd(RMul(v, Rat(Overlap(h), StepHours * TPH)),
                  WeightedSum(hs \ {h}, sid))

C10_WeightedSum ==
    /\ \A sid \in DOMAIN STATIONS :
          (Incremental /\ Stored(sid)) =>
              Remainder(sid) = WeightedSum(Elements(relevant_steps), sid)
    /\ LET so   == TPH \div 2
           eo   == (5 * TPH) \div 2
           ones == [h \in 1..48 |-> RInt(1)]
       IN  /\ SummingSteps(1, 48, so, eo) = <<1, 2, 3>>
           /\ StepContribution(ones, 1, 1, so, eo) = Rat(1, 2)
           /\ StepContribution(ones, 2, 1, so, eo) = RInt(1)
           /\ StepContribution(ones, 3, 1, so, eo) = Rat(1, 2)

\* a window starting and ending inside a bucket, a planned step not
\* recovered, and a remainder that is not 0
C10_Witness ==
    /\ Incremental
    /\ Len(relevant_steps) >= 3
    /\ Overlap(relevant_steps[1]) \in 1..(StepHours * TPH - 1)
    /\ Overlap(relevant_steps[Len(relevant_steps)]) \in 1..(StepHours * TPH - 1)
    /\ Elements(relevant_steps) \ Recovered # {}
    /\ \E sid \in DOMAIN STATIONS : Stored(sid) /\ Remainder(sid) # RZero

(***************************************************************************)
(* Coverage of the window by the planned buckets of an incremental model.  *)
(***************************************************************************)
\* the planned buckets are consecutive and the window lies inside them
Covered ==
    /\ relevant_steps # <<>>
    /\ \A j \in 1..(Len(relevant_steps) - 1) :
          relevant_steps[j + 1] = relevant_steps[j] + StepHours
    /\ (relevant_steps[1] - StepHours) * TPH <= WindowStart
    /\ WindowStart <= WindowEnd
    /\ WindowEnd <= relevant_steps[Len(relevant_steps)] * TPH

\* the sum of overlap / step_size over all planned steps, as the summing
\* loop computes it for a value of 1 in every bucket
FractionSum ==
    SummingVal(relevant_steps, [h \in Elements(relevant_steps) |-> RInt(1)],
               StepHours, start_hour_offset, end_hour_offset)

(***************************************************************************)
(* C11, as stated.  For an incremental model, whenever the window is fully *)
(* covered by consecutive planned buckets, the sum of overlap / step size  *)
(* over all planned steps equals exactly 1.                                *)
(***************************************************************************)
C11_FractionsSumToOne ==
    (Incremental /\ Planned /\ Covered) => FractionSum = RInt(1)

(***************************************************************************)
(* C11, amended.  For an incremental model, whenever the window is fully   *)
(* covered by consecutive planned buckets, the sum of overlap / step size  *)
(* over all planned steps equals the length of the window divided by the   *)
(* step size (the overlaps add up to the length of the window).            *)
(***************************************************************************)
C11_FractionsSumToWindow ==
    (Incremental /\ Planned /\ Covered) =>
        FractionSum = Rat(WindowEnd - WindowStart, StepHours * TPH)

\* a covered window over several buckets, starting and ending inside one,
\* whose length is not the step size
C11_Witness ==
    /\ Incremental
    /\ Planned
    /\ Covered
    /\ Len(relevant_steps) >= 2
    /\ (relevant_steps[1] - StepHours) * TPH < WindowStart
    /\ WindowEnd < relevant_steps[Len(relevant_steps)] * TPH
    /\ FractionSum # RInt(1)

(***************************************************************************)
(* The record written for a station.                                       *)
(***************************************************************************)
Row(sid) == RowOf(STATIONS[sid].id, model_name, isoformat(run_time, "+00:00"))

(***************************************************************************)
(* C12.  The is_partial flag written for every station of a model run      *)
(* equals (end offset > max horizon), however many planned steps were      *)
(* recovered; an end offset of 400 h with a max horizon of 240 h gives     *)
(* true.                                                                   *)
(***************************************************************************)
C12_PartialFlag ==
    /\ \A sid \in DOMAIN STATIONS :
          (Planned /\ Stored(sid)) =>
              Row(sid).is_partial = (WindowEnd > Horizon * TPH)
    /\ max_forecast_hour("ECMWF") = 240
    /\ IsPartial("ECMWF", 400 * TPH)

\* an end offset just under 400 h against a horizon of 240 h, every planned
\* step recovered, and both stations written as partial
C12_Witness ==
    /\ model_name = "ECMWF"
    /\ Planned
    /\ WindowEnd > 399 * TPH
    /\ relevant_steps # <<>>
    /\ Recovered = Elements(relevant_steps)
    /\ \A sid \in DOMAIN STATIONS : Stored(sid) /\ Row(sid).is_partial

\* an end offset within the horizon, no planned step recovered, and both
\* stations written as not partial
C12_WitnessNothingRecovered ==
    /\ Planned
    /\ WindowEnd <= Horizon * TPH
    /\ relevant_steps # <<>>
    /\ Recovered = {}
    /\ \A sid \in DOMAIN STATIONS : Stored(sid) /\ ~Row(sid).is_partial

(***************************************************************************)
(* C13.  Accumulation is deterministic: two executions with identical      *)
(* model, plan, recovered values, start offset and end offset give         *)
(* identical (remainder, is_partial).                                      *)
(***************************************************************************)
SameInputs(a, b) ==
    /\ a.model_name = b.model_name
    /\ a.relevant_steps = b.relevant_steps
    /\ a.values = b.values
    /\ a.start_hour_offset = b.start_hour_offset
    /\ a.end_hour_offset = b.end_hour_offset

StoreKey(r) == <<r.location_id, r.model_name, r.init_time>>

\* a missing value counted as 0
Value(x) == IF x = RNone THEN RZero ELSE x

\* the save_forecast calls so far, and the most recent one for a key
Saves == {j \in 1..Len(db_log) : db_log[j].fn = "save_forecast"}
LastSave(key) ==
    db_log[CHOOSE j \in Saves :
              /\ StoreKey(db_log[j]) = key
              /\ \A k \in Saves : StoreKey(db_log[k]) = key => k <= j]

(***************************************************************************)
(* C14.  After any sequence of save_forecast calls, every row of the store *)
(* satisfies total_proj = observed_mtd + forecast_remainder, a missing     *)
(* value counted as 0.                                                     *)
(***************************************************************************)
C14_TotalRecomputed ==
    \A j \in 1..Len(forecasts) :
        forecasts[j].total_proj =
            RAdd(Value(forecasts[j].observed_mtd), Value(forecasts[j].forecast_remainder))

\* rows with a missing observation, with a missing remainder and with both
\* values present, one of them written over an earlier row of its key
C14_Witness ==
    /\ \E j \in 1..Len(forecasts) :
          forecasts[j].observed_mtd = RNone /\ forecasts[j].total_proj = RInt(1)
    /\ \E j \in 1..Len(forecasts) :
          forecasts[j].forecast_remainder = RNone /\ forecasts[j].total_proj = RInt(2)
    /\ Cardinality(Saves) > Len(forecasts)

(***************************************************************************)
(* C15.  After any sequence of save_forecast calls, the store holds at     *)
(* most one row per key (location, model, init_time), and that row carries *)
(* the observed_mtd, forecast_remainder, total_proj and is_partial of the  *)
(* most recent call for that key; a key never written has no row.          *)
(***************************************************************************)
C15_Upsert ==
    /\ \A j, k \in 1..Len(forecasts) :
          StoreKey(forecasts[j]) = StoreKey(forecasts[k]) => j = k
    /\ \A j \in 1..Len(forecasts) :
          /\ \E k \in Saves : StoreKey(db_log[k]) = StoreKey(forecasts[j])
          /\ LET call == LastSave(StoreKey(forecasts[j]))
             IN  /\ forecasts[j].observed_mtd = call.observed_mtd
                 /\ forecasts[j].forecast_remainder = call.forecast_remainder
                 /\ forecasts[j].is_partial = call.is_partial
                 /\ forecasts[j].total_proj =
                        RAdd(Value(call.observed_mtd), Value(call.forecast_remainder))
    /\ \A k \in Saves :
          \E j \in 1..Len(forecasts) : StoreKey(forecasts[j]) = StoreKey(db_log[k])

\* one key written three times: with one set of values, with another, and
\* with the second again; a single row holds the last values
C15_Witness ==
    /\ Len(db_log) = 3
    /\ Saves = 1..3
    /\ StoreKey(db_log[1]) = StoreKey(db_log[2])
    /\ StoreKey(db_log[2]) = StoreKey(db_log[3])
    /\ db_log[1] # db_log[2]
    /\ db_log[2] = db_log[3]
    /\ Len(forecasts) = 1
    /\ forecasts[1].forecast_remainder = db_log[3].forecast_remainder

(***************************************************************************)
(* C16.  get_latest_observation(location) returns 0.0 when the store holds *)
(* no NWS_CLI row of the location, and otherwise the observed_mtd of the   *)
(* NWS_CLI row of the location with the greatest init_time; it never       *)
(* changes the store.                                                      *)
(***************************************************************************)
Observations(location_id) ==
    {r \in Elements(forecasts) :
        r.location_id = location_id /\ r.model_name = "NWS_CLI"}

LatestObservationOf(location_id) ==
    IF Observations(location_id) = {} THEN RZero
    ELSE (CHOOSE r \in Observations(location_id) :
             \A other \in Observations(location_id) :
                 other = r \/ TextLess(other.init_time, r.init_time)).observed_mtd

Returned == db_log'[Len(db_log')]

C16_LatestObservation ==
    [][(Len(db_log') = Len(db_log) + 1 /\ Returned.fn = "get_latest_observation") =>
          /\ Returned.result = LatestObservationOf(Returned.location_id)
          /\ forecasts' = forecasts]_vars

\* a lookup that found two observations of the location, the earlier one
\* written last, next to rows of another model and of another location
C16_Witness ==
    /\ Len(db_log) = 3
    /\ db_log[3].fn = "get_latest_observation"
    /\ Cardinality(Observations(db_log[3].location_id)) = 2
    /\ TextLess(forecasts[2].init_time, forecasts[1].init_time)
    /\ db_log[3].result = forecasts[1].observed_mtd
    /\ db_log[3].result # forecasts[2].observed_mtd

\* a lookup for a location without an observation: 0.0
C16_WitnessAbsent ==
    /\ Len(db_log) = 2
    /\ db_log[1].fn = "save_forecast"
    /\ db_log[2].fn = "get_latest_observation"
    /\ Observations(db_log[2].location_id) = {}
    /\ db_log[2].result = RZero

(***************************************************************************)
(* The extraction, as the statements about it word it.                     *)
(***************************************************************************)
Extracted == pc = "extracted"
Located == lat_name(ds) # None /\ lon_name(ds) # None

\* the same dataset with no lookup raising
Sound(d) == [d EXCEPT !.raises = {}]

\* the same grid in the other longitude convention: every longitude
\* rewritten, a 1-D axis stored west to east again with its columns
Other(lo, to180) == IF to180 THEN (IF lo > 180 THEN lo - 360 ELSE lo) ELSE lo % 360

OtherConvention(d) ==
    IF d.dims = 1
    THEN LET n      == Len(d.lon)
             to180  == AnyAbove180(d.lon)
             \* the columns that stay in front of the seam
             front  == Cardinality({x \in 1..n :
                           IF to180 THEN d.lon[x] <= 180 ELSE d.lon[x] < 0})
             col(x) == IF x <= n - front THEN front + x ELSE x - (n - front)
         IN  [d EXCEPT !.lon  = [x \in 1..n |-> Other(d.lon[col(x)], to180)],
                       !.data = [y \in 1..Len(d.lat) |->
                                    [x \in 1..n |-> d.data[y][col(x)]]]]
    ELSE LET to180 == AnyAbove180Rows(d.lon)
         IN  [d EXCEPT !.lon = [y \in 1..Len(d.lon) |->
                                   [x \in 1..Len(d.lon[y]) |->
                                       Other(d.lon[y][x], to180)]]]

(***************************************************************************)
(* C17.  extract_precip_values never raises when the grid has no           *)
(* identifiable latitude or longitude coordinate: it returns a mapping     *)
(* with value 0 for every station of the batch.                            *)
(***************************************************************************)
C17_NoCoordinates ==
    (Extracted /\ ~Located) =>
        /\ DOMAIN results = DOMAIN stations
        /\ \A sid \in DOMAIN stations : results[sid] = 0

\* a dataset with a latitude but no longitude coordinate, whose cells would
\* have given values other than 0
C17_Witness ==
    /\ Extracted
    /\ lat_name(ds) # None
    /\ lon_name(ds) = None
    /\ ds.raises = {}
    /\ \A sid \in DOMAIN stations :
          /\ results[sid] = 0
          /\ extract_precip_values([ds EXCEPT !.coords = {"latitude", "longitude"}],
                                   stations)[sid] # 0

(***************************************************************************)
(* C18.  When the lookup of a single station fails, the call does not      *)
(* raise, that station's value is 0, and every other station of the batch  *)
(* keeps its correctly extracted value, for 1-D and for 2-D grids alike.   *)
(***************************************************************************)
Isolated ==
    \A failed \in DOMAIN stations :
        ds.raises = {failed} =>
            /\ DOMAIN results = DOMAIN stations
            /\ results[failed] = 0
            /\ \A sid \in DOMAIN stations \ {failed} :
                  results[sid] = extract_precip_values(Sound(ds), stations)[sid]

C18_StationIsolated == (Extracted /\ Located) => Isolated

\* the part of C18 about 1-D grids
C18_Rectilinear == (Extracted /\ Located /\ ds.dims = 1) => Isolated

\* a 1-D grid, one lookup failed, the other station with its value
C18_RectilinearWitness ==
    /\ Extracted
    /\ Located
    /\ ds.dims = 1
    /\ \E failed \in DOMAIN stations :
          /\ ds.raises = {failed}
          /\ results[failed] = 0
          /\ \E sid \in DOMAIN stations : results[sid] # 0

(***************************************************************************)
(* C19.  For a station at longitude -119, extract_precip_values selects    *)
(* the same physical grid cell from a grid in the 0-360 convention as from *)
(* the same grid in the +/-180 convention, for 1-D and for 2-D grids.      *)
(***************************************************************************)
C19_SameCell ==
    (Extracted /\ Located /\ ds.raises = {}) =>
        \A sid \in DOMAIN stations :
            stations[sid].lon = -119 =>
                results[sid] = extract_precip_values(OtherConvention(ds), stations)[sid]

\* the station at -119 on a 1-D grid in 0-360, between two grid lines
C19_Witness ==
    /\ Extracted
    /\ Located
    /\ ds.raises = {}
    /\ ds.dims = 1
    /\ AnyAbove180(ds.lon)
    /\ ds.lon[2] = 2
    /\ "P119" \in DOMAIN stations
    /\ results["P119"] = CellValue(35, 242)
    /\ ~AnyAbove180(OtherConvention(ds).lon)

\* the station at -119 on a 2-D grid in 0-360
C19_WitnessCurvilinear ==
    /\ Extracted
    /\ Located
    /\ ds.raises = {}
    /\ ds.dims = 2
    /\ AnyAbove180Rows(ds.lon)
    /\ "P119" \in DOMAIN stations
    /\ results["P119"] = CellValue(32, 240)

(***************************************************************************)
(* The step loop, as the statement about its failures words it.            *)
(***************************************************************************)
\* the passes of the step loop that recovered nothing, and those among them
\* that ended in download_grib_file returning False or in no precipitation
\* variable being found
FailedFetches == {j \in 1..Len(fetches) : fetches[j].result # "ok"}
SkippedFetches ==
    {j \in 1..Len(fetches) : fetches[j].result \in {"download_failed", "no_precip"}}

LoopOver == pc \in {"save", "returned", "raised"}
Written(sid) ==
    \E j \in 1..Len(forecasts) :
        /\ forecasts[j].location_id = STATIONS[sid].id
        /\ forecasts[j].model_name = model_name
        /\ forecasts[j].init_time = isoformat(run_time, "+00:00")

\* every planned step was attempted, the run was not aborted by the step
\* loop, and a run that reached its end wrote a record for every station
RunCarriedOn ==
    /\ outcome[model_name] # "DownloadError"
    /\ LoopOver => Len(fetches) = Len(relevant_steps)
    /\ outcome[model_name] = "done" => \A sid \in DOMAIN STATIONS : Written(sid)

(***************************************************************************)
(* C20.  Within one model run, a download failure or a decode failure for  *)
(* one planned step skips only that step: every remaining planned step is  *)
(* still attempted, the run is not aborted, and a forecast record is still *)
(* written for every station from the recovered values.                    *)
(***************************************************************************)
C20_StepFailureSkipped ==
    (Planned /\ FailedFetches # {}) => RunCarriedOn

\* the part of C20 about the failures download_grib_file and
\* open_precip_dataset report themselves
C20_ReportedFailureSkipped ==
    (Planned /\ FailedFetches # {} /\ FailedFetches = SkippedFetches) => RunCarriedOn

\* a run whose first step failed to download and whose second step was
\* recovered, with both stations written
C20_ReportedWitness ==
    /\ Planned
    /\ Len(fetches) = 2
    /\ fetches[1].result = "download_failed"
    /\ fetches[2].result = "ok"
    /\ outcome[model_name] = "done"
    /\ \A sid \in DOMAIN STATIONS : Written(sid)

(***************************************************************************)
(* Concurrent writers.  Two processes (say the scheduler's ingestion and a *)
(* run of ingest.py started by hand) call save_forecast at the same time.  *)
(* Each call opens its own connection with a busy timeout of 10 seconds,   *)
(* executes one INSERT OR REPLACE, commits and closes.  SQLite lets one     *)
(* connection write at a time: the statement takes the write lock and      *)
(* keeps it until the commit; a statement that finds the lock taken waits  *)
(* for it, and raises "database is locked" once it has waited for the busy *)
(* timeout.  A writer keeps the lock for the insertion of one row and its  *)
(* commit, which takes at most MaxHold seconds.                            *)
(***************************************************************************)
Writers == {"w1", "w2"}

\* a connection that does not wait for the lock
NoBusyTimeout == 10 - 10
\* sqlite3.connect(DB_PATH, timeout=10), in seconds
BusyTimeout == 10
\* the longest a writer holds the write lock, in seconds
MaxHold == 2

\* everything but the store, the log, the clock and the side tables is at rest
Standing(p) ==
    /\ MODELS = ShippedMODELS
    /\ field = 0
    /\ faults = 0
    /\ caller = "direct"
    /\ pc = p
    /\ todo = <<>>
    /\ outcome = [m \in ModelNames |-> "pending"]
    /\ model_name = None
    /\ now = 0
    /\ ResolverReset
    /\ run_time = 0
    /\ ProcessReset
    /\ accumulated = <<>>
    /\ ExtractReset

standing_vars == <<MODELS, field, faults, caller, pc, todo, outcome, model_name, now,
                   resolver_vars, run_time, process_vars, accumulated, extract_vars>>

WriterKeys ==
    {<<location_id, "GFS", isoformat(MonthStart[2], "+00:00")>> :
        location_id \in StoreLocations}

\* the writer holding the write lock: its statement ran, its commit did not
Holders == {w \in Writers : writers[w].pc = "executed"}

InitWriters ==
    /\ Standing("writers")
    /\ clock = 0
    /\ forecasts \in {EmptyStore,
                      save_forecast(EmptyStore, "KNYC", "GFS",
                                    isoformat(MonthStart[2], "+00:00"),
                                    RInt(2), RInt(2), TRUE)}
    /\ db_log = <<>>
    /\ writers \in [Writers -> [pc     : {"start"},
                                key    : WriterKeys,
                                value  : StoreValues,
                                view   : {<<>>},
                                waited : {0},
                                held   : {0},
                                error  : {None}]]
    /\ target_dates = <<>>
    /\ temperature_forecasts = <<>>

\* conn = get_db_connection(); c = conn.cursor()
Connect(w) ==
    /\ pc = "writers"
    /\ writers[w].pc = "start"
    /\ writers' = [writers EXCEPT ![w].pc = "connected"]
    /\ UNCHANGED <<standing_vars, clock, forecasts, db_log, target_dates,
                   temperature_forecasts>>

\* c.execute(INSERT OR REPLACE ...): with the lock free the statement runs on
\* the store as committed so far; with the lock taken it waits, and raises
\* once it has waited for the busy timeout
Execute(w) ==
    /\ pc = "writers"
    /\ writers[w].pc \in {"connected", "waiting"}
    /\ IF Holders = {}
       THEN writers' = [writers EXCEPT
                          ![w].pc = "executed",
                          ![w].view = save_forecast(forecasts,
                                                    writers[w].key[1], writers[w].key[2],
                                                    writers[w].key[3], writers[w].value[1],
                                                    writers[w].value[2], writers[w].value[3])]
       ELSE IF writers[w].waited >= BusyTimeout
       THEN writers' = [writers EXCEPT ![w].pc = "raised",
                                       ![w].error = "OperationalError"]
       ELSE /\ writers[w].pc = "connected"
            /\ writers' = [writers EXCEPT ![w].pc = "waiting"]
    /\ UNCHANGED <<standing_vars, clock, forecasts, db_log, target_dates,
                   temperature_forecasts>>

\* a second passes while a writer holds the lock
Second ==
    /\ pc = "writers"
    /\ \E h \in Holders : writers[h].held < MaxHold
    /\ clock' = clock + TicksPerSecond
    /\ writers' = [w \in Writers |->
                      IF writers[w].pc = "executed"
                      THEN [writers[w] EXCEPT !.held = @ + 1]
                      ELSE IF writers[w].pc = "waiting"
                      THEN [writers[w] EXCEPT !.waited = @ + 1]
                      ELSE writers[w]]
    /\ UNCHANGED <<standing_vars, forecasts, db_log, target_dates,
                   temperature_forecasts>>

\* conn.commit(): the row becomes the store's, the lock is released
Commit(w) ==
    /\ pc = "writers"
    /\ writers[w].pc = "executed"
    /\ forecasts' = writers[w].view
    /\ db_log' = Append(db_log, LogSave(writers[w].key[1], writers[w].key[2],
                                        writers[w].key[3], writers[w].value[1],
                                        writers[w].value[2], writers[w].value[3]))
    /\ writers' = [writers EXCEPT ![w].pc = "committed"]
    /\ UNCHANGED <<standing_vars, clock, target_dates, temperature_forecasts>>

\* conn.close()
Close(w) ==
    /\ pc = "writers"
    /\ writers[w].pc = "committed"
    /\ writers' = [writers EXCEPT ![w].pc = "closed"]
    /\ UNCHANGED <<standing_vars, clock, forecasts, db_log, target_dates,
                   temperature_forecasts>>

NextWriters ==
    \/ \E w \in Writers : Connect(w)
    \/ \E w \in Writers : Execute(w)
    \/ Second
    \/ \E w \in Writers : Commit(w)
    \/ \E w \in Writers : Close(w)

SpecWriters == InitWriters /\ [][NextWriters]_vars

(***************************************************************************)
(* The concurrent writers, as the statement about them words it.           *)
(***************************************************************************)
Finished(w) == writers[w].pc \in {"closed", "raised"}
RowsOf(key) == {j \in 1..Len(forecasts) : StoreKey(forecasts[j]) = key}
\* the row carries the four values of writer w's call
WrittenBy(r, w) ==
    /\ r.observed_mtd = writers[w].value[1]
    /\ r.forecast_remainder = writers[w].value[2]
    /\ r.is_partial = writers[w].value[3]
    /\ r.total_proj = RAdd(Value(writers[w].value[1]), Value(writers[w].value[2]))
\* the writer whose commit came last
LastWriter(w) ==
    /\ Len(db_log) > 0
    /\ db_log[Len(db_log)].observed_mtd = writers[w].value[1]
    /\ db_log[Len(db_log)].forecast_remainder = writers[w].value[2]
    /\ db_log[Len(db_log)].is_partial = writers[w].value[3]

OnCycleBoundary(m, t) ==
    /\ t % TPH = 0
    /\ ((t \div TPH) % 24) % cycle_step(m) = 0

\* b is the latest cycle boundary at or before t: boundaries lie one cycle
\* interval apart, so it is the one less than an interval before t
LatestBoundary(m, b, t) ==
    /\ OnCycleBoundary(m, b)
    /\ b <= t
    /\ t - b < cycle_step(m) * TPH

\* get_latest_run_time has read the clock and not returned to a later reading
Resolving == pc \in {"probe", "process"} /\ model_name # None

(***************************************************************************)
(* C22.  The first candidate probed by get_latest_run_time is the latest   *)
(* time at or before now that lies on a cycle boundary; every candidate    *)
(* probed, and any run time returned, is at or before now and lies on a    *)
(* cycle boundary, also when the candidates cross midnight into earlier    *)
(* days.                                                                   *)
(***************************************************************************)
C22_CycleBoundary ==
    Resolving =>
        /\ pc = "probe" =>
              LatestBoundary(model_name, current_cycle_start, now)
        /\ Len(probes) >= 1 =>
              LatestBoundary(model_name, probes[1].t, now)
        /\ \A j \in 1..Len(probes) :
              /\ probes[j].t <= now
              /\ OnCycleBoundary(model_name, probes[j].t)
        /\ latest # <<>> =>
              /\ latest[1] <= now
              /\ OnCycleBoundary(model_name, latest[1])

\* a 6-hourly model resolved in the evening: the first candidate is 18:00 of
\* the day, a later one lies on an earlier day
C22_Witness ==
    /\ pc = "probe"
    /\ cycle_step(model_name) = 6
    /\ Len(probes) >= 5
    /\ now % TPH # 0
    /\ hour(probes[1].t) = 18
    /\ \E j \in 1..Len(probes) : probes[j].t \div Day < now \div Day

\* now lies on a cycle boundary itself: it is the first candidate
C22_WitnessOnBoundary ==
    /\ pc = "probe"
    /\ Len(probes) >= 1
    /\ probes[1].t = now

(***************************************************************************)
(* The 2-D lookup, as the statement about it words it.                     *)
(***************************************************************************)
Cells == {c \in (1..Len(ds.lat)) \X (1..Len(ds.lat[1])) : TRUE}

\* the longitude of a cell, in +/-180 when any longitude of the grid exceeds 180
CellLon(c) ==
    IF \E e \in Cells : ds.lon[e[1]][e[2]] > 180
    THEN (IF ds.lon[c[1]][c[2]] >= 180 THEN ds.lon[c[1]][c[2]] - 360
          ELSE ds.lon[c[1]][c[2]])
    ELSE ds.lon[c[1]][c[2]]

SquaredDistance(c, station) ==
    (ds.lat[c[1]][c[2]] - station.lat) * (ds.lat[c[1]][c[2]] - station.lat)
    + (CellLon(c) - station.lon) * (CellLon(c) - station.lon)

\* the cells at the minimum squared distance to the station
Nearest(station) ==
    {c \in Cells : \A e \in Cells : SquaredDistance(c, station) <= SquaredDistance(e, station)}

\* the position of a cell in row-major scan order
ScanOrder(c) == (c[1] - 1) * Len(ds.lat[1]) + c[2]

(***************************************************************************)
(* C23.  For a 2-D grid extract_precip_values returns for each station the *)
(* value of the grid cell at the minimum squared Euclidean distance in     *)
(* degrees to the station, the grid longitudes mapped into +/-180 when any *)
(* exceeds 180; of several cells at the minimum distance it is the first   *)
(* in row-major scan order.                                                *)
(***************************************************************************)
C23_NearestCell ==
    (Extracted /\ Located /\ ds.dims = 2 /\ ds.raises = {}) =>
        \A sid \in DOMAIN stations :
            \E c \in Nearest(stations[sid]) :
                /\ \A e \in Nearest(stations[sid]) : ScanOrder(c) <= ScanOrder(e)
                /\ results[sid] = ds.data[c[1]][c[2]]

\* the station at (34, -119) between the cells (33, -119) and (35, -119) of a
\* grid in 0-360: both at squared distance 1, the first of them chosen
C23_Witness ==
    /\ Extracted
    /\ Located
    /\ ds.dims = 2
    /\ ds.raises = {}
    /\ "P119" \in DOMAIN stations
    /\ AnyAbove180Rows(ds.lon)
    /\ Nearest(stations["P119"]) = {<<1, 1>>, <<1, 2>>}
    /\ results["P119"] = ds.data[1][1]
    /\ results["P119"] # ds.data[1][2]
    /\ Cardinality(Nearest(stations["NYC"])) = 1

(***************************************************************************)
(* The latest forecasts, as the statement about them words it.             *)
(***************************************************************************)
Pair(r) == <<r.location_id, r.model_name>>
Pairs == {Pair(r) : r \in Elements(forecasts)}
\* the row of the pair with the greatest init_time
LatestOf(pair) ==
    CHOOSE r \in Elements(forecasts) :
        /\ Pair(r) = pair
        /\ \A other \in Elements(forecasts) :
              Pair(other) = pair => (other = r \/ TextLess(other.init_time, r.init_time))

(***************************************************************************)
(* C24.  get_latest_forecasts returns, for every (location, model) pair    *)
(* with at least one row in the store, exactly one record, which is the    *)
(* row of the pair with the greatest init_time; it returns nothing else,   *)
(* so no older run of a pair, and leaves the store as it is.               *)
(***************************************************************************)
C24_LatestPerPair ==
    [][(Len(db_log') = Len(db_log) + 1 /\ Returned.fn = "get_latest_forecasts") =>
          /\ \A pair \in Pairs :
                /\ Cardinality({j \in 1..Len(Returned.result) :
                                   Pair(Returned.result[j]) = pair}) = 1
                /\ \E j \in 1..Len(Returned.result) : Returned.result[j] = LatestOf(pair)
          /\ \A j \in 1..Len(Returned.result) : Pair(Returned.result[j]) \in Pairs
          /\ forecasts' = forecasts]_vars

\* two runs of one pair in the store, the later one written first: the call
\* returned the later run only
C24_Witness ==
    /\ Len(db_log) = 3
    /\ db_log[3].fn = "get_latest_forecasts"
    /\ Len(forecasts) = 2
    /\ Pair(forecasts[1]) = Pair(forecasts[2])
    /\ forecasts[1].model_name = "GFS"
    /\ TextLess(forecasts[2].init_time, forecasts[1].init_time)
    /\ db_log[3].result = <<forecasts[1]>>

\* rows of two pairs in the store: one record for each
C24_WitnessTwoPairs ==
    /\ Len(db_log) = 3
    /\ db_log[3].fn = "get_latest_forecasts"
    /\ Cardinality(Pairs) = 2
    /\ Len(db_log[3].result) = 2

(***************************************************************************)
(* C28.  save_forecast for a key (location, model, init_time) leaves every *)
(* row with a different key unchanged: the rows of the other keys are the  *)
(* same before and after the call, none changed, none removed, none added; *)
(* so writing a model forecast never touches an NWS_CLI observation row,   *)
(* and writing a later run of a model never touches its earlier runs.      *)
(***************************************************************************)
C28_OtherKeysUnchanged ==
    [][(Len(db_log') = Len(db_log) + 1 /\ Returned.fn = "save_forecast") =>
          {r \in Elements(forecasts) : StoreKey(r) # StoreKey(Returned)}
              = {r \in Elements(forecasts') : StoreKey(r) # StoreKey(Returned)}]_vars

\* an observation, then an earlier run of a model, then its later run: the
\* store holds all three, the first two as they were written
C28_Witness ==
    /\ Len(db_log) = 3
    /\ Saves = 1..3
    /\ db_log[1].model_name = "NWS_CLI"
    /\ db_log[2].model_name = "GFS"
    /\ db_log[3].model_name = "GFS"
    /\ db_log[1].location_id = db_log[3].location_id
    /\ db_log[2].location_id = db_log[3].location_id
    /\ TextLess(db_log[2].init_time, db_log[3].init_time)
    /\ Len(forecasts) = 3
    /\ \A j \in 1..2 :
          /\ StoreKey(forecasts[j]) = StoreKey(db_log[j])
          /\ forecasts[j].observed_mtd = db_log[j].observed_mtd
          /\ forecasts[j].forecast_remainder = db_log[j].forecast_remainder
          /\ forecasts[j].is_partial = db_log[j].is_partial

(***************************************************************************)
(* The tiling of the window by the planned buckets of an incremental model.*)
(***************************************************************************)
\* the sum over all planned steps of the overlap the summing loop computes,
\* in ticks
OverlapSum == RMul(FractionSum, RInt(StepHours * TPH))

\* the length of the part of the window inside the forecast horizon, in ticks
InsideHorizon ==
    LET end == IF WindowEnd <= Horizon * TPH THEN WindowEnd ELSE Horizon * TPH
    IN  IF end - WindowStart >= 0 THEN end - WindowStart ELSE 0

\* what the summing loop accumulates for a rate of r per hour in every bucket
UniformSum(r) ==
    SummingVal(relevant_steps, [h \in Elements(relevant_steps) |-> RInt(r * StepHours)],
               StepHours, start_hour_offset, end_hour_offset)

(***************************************************************************)
(* C25.  For an incremental model with 0 <= start offset <= end offset the *)
(* sum of the overlaps over all planned steps equals max(0, min(end        *)
(* offset, max horizon) - start offset): the planned buckets tile the part *)
(* of the window inside the horizon without gap or double counting, and a  *)
(* uniform rate of r per hour accumulates to r times that length.          *)
(***************************************************************************)
C25_Tiling ==
    (Incremental /\ Planned /\ 0 <= WindowStart /\ WindowStart <= WindowEnd) =>
        /\ OverlapSum = RInt(InsideHorizon)
        /\ UniformSum(2) = Rat(2 * InsideHorizon, TPH)

\* a window that starts inside the last bucket before the horizon and ends
\* after the horizon: the overlaps add up to less than the window
C25_Witness ==
    /\ Incremental
    /\ Planned
    /\ relevant_steps # <<>>
    /\ (relevant_steps[1] - StepHours) * TPH < WindowStart
    /\ WindowEnd > Horizon * TPH
    /\ InsideHorizon > 0
    /\ InsideHorizon < WindowEnd - WindowStart
    /\ OverlapSum = RInt(InsideHorizon)

\* a window of several buckets inside the horizon
C25_WitnessInside ==
    /\ Incremental
    /\ Planned
    /\ Len(relevant_steps) >= 3
    /\ WindowEnd < Horizon * TPH
    /\ OverlapSum = RInt(WindowEnd - WindowStart)

\* a window that starts at or after the horizon: nothing planned, sum 0
C25_WitnessBeyond ==
    /\ Incremental
    /\ Planned
    /\ relevant_steps = <<>>
    /\ WindowStart >= Horizon * TPH
    /\ OverlapSum = RZero

(***************************************************************************)
(* C26.  For a cumulative model, when every planned step is recovered, the *)
(* remainder equals max(0, value at the planned end lead time - value at   *)
(* the planned start lead time); when the planned start and end coincide   *)
(* (a single planned step) the remainder is 0.                             *)
(***************************************************************************)
C26_EndMinusStart ==
    \A sid \in DOMAIN STATIONS :
        (/\ Cumulative
         /\ Stored(sid)
         /\ relevant_steps # <<>>
         /\ Elements(relevant_steps) \subseteq Recovered) =>
            LET start == relevant_steps[1]
                end   == relevant_steps[Len(relevant_steps)]
                delta == RSub(ValueAt(sid, end), ValueAt(sid, start))
            IN  Remainder(sid) = IF Negative(delta) THEN RZero ELSE delta

(***************************************************************************)
(* The ingestion paths at their store step.  Each action is one pass of a  *)
(* path's station loop at the point where it looks the observation up and  *)
(* writes its record: the scraper (NWS_CLI observation), the GRIB model    *)
(* runs, Open-Meteo, NWS gridpoints and the NBM text product.  What the    *)
(* pass computed before (the remainder, is_partial) is drawn from          *)
(* PathValues; for the NBM pass the text held a block for the station.     *)
(***************************************************************************)
MaxPasses == 3

\* <<forecast_remainder, is_partial>>
PathValues == {<<RInt(1), FALSE>>, <<RZero, TRUE>>}
\* month-to-date precipitation parsed from the CLI product
ScrapedValues == {RInt(1), RInt(2)}

InitPaths ==
    /\ Standing("paths")
    /\ clock = MonthStart[2] - Day
    /\ forecasts = EmptyStore
    /\ db_log = <<>>
    /\ SideReset

PassAllowed == pc = "paths" /\ Cardinality(Saves) < MaxPasses

\* scraper.py update_observed_precipitation, one station
ScraperPass(sid) ==
    /\ PassAllowed
    /\ \E t \in {clock, clock + 1}, mtd_precip \in ScrapedValues :
          /\ clock' = t
          /\ forecasts' = save_forecast(forecasts, STATIONS[sid].id, "NWS_CLI",
                                        isoformat(t, ""), mtd_precip, RZero, FALSE)
          /\ db_log' = Append(db_log, LogSave(STATIONS[sid].id, "NWS_CLI",
                                              isoformat(t, ""), mtd_precip, RZero, FALSE))
    /\ UNCHANGED <<standing_vars, side_vars>>

\* one pass that looks the observation up under lookup_id and writes the
\* record of model under location_id
StorePass(lookup_id, location_id, model, init_time, v) ==
    LET observed == get_latest_observation(forecasts, lookup_id)
    IN  /\ forecasts' = save_forecast(forecasts, location_id, model, init_time,
                                      observed, v[1], v[2])
        /\ db_log' = db_log \o <<LogGet(lookup_id, observed),
                                 LogSave(location_id, model, init_time,
                                         observed, v[1], v[2])>>

\* ingest.py process_model_run, the station loop: station.id, run_time
GribPass(sid) ==
    /\ PassAllowed
    /\ \E v \in PathValues :
          StorePass(STATIONS[sid].id, STATIONS[sid].id, "GFS",
                    isoformat(CycleStart("GFS", clock), "+00:00"), v)
    /\ UNCHANGED <<standing_vars, clock, side_vars>>

\* ingest_api.py fetch_open_meteo_forecasts: station.id, now
OpenMeteoPass(sid) ==
    /\ PassAllowed
    /\ \E v \in PathValues :
          StorePass(STATIONS[sid].id, STATIONS[sid].id, "GFS",
                    isoformat(clock, "+00:00"), v)
    /\ UNCHANGED <<standing_vars, clock, side_vars>>

\* ingest_api.py fetch_nws_forecasts: station.id, now
NwsPass(sid) ==
    /\ PassAllowed
    /\ \E v \in PathValues :
          StorePass(STATIONS[sid].id, STATIONS[sid].id, "NWS",
                    isoformat(clock, "+00:00"), v)
    /\ UNCHANGED <<standing_vars, clock, side_vars>>

\* ingest_api.py fetch_nbm_forecasts: "for sid, data in station_data.items()"
\* looks up and writes under sid, the key of STATIONS
NbmPass(sid) ==
    /\ PassAllowed
    /\ \E v \in PathValues :
          StorePass(sid, sid, "NBM", isoformat(clock, "+00:00"), v)
    /\ UNCHANGED <<standing_vars, clock, side_vars>>

NextPaths ==
    \/ \E sid \in DOMAIN STATIONS : ScraperPass(sid)
    \/ \E sid \in DOMAIN STATIONS : GribPass(sid)
    \/ \E sid \in DOMAIN STATIONS : OpenMeteoPass(sid)
    \/ \E sid \in DOMAIN STATIONS : NwsPass(sid)
    \/ \E sid \in DOMAIN STATIONS : NbmPass(sid)

SpecPaths == InitPaths /\ [][NextPaths]_vars

(***************************************************************************)
(* C27.  Every forecast record written by any ingestion path uses as its   *)
(* location key a station's identifier Station.id, the key under which the *)
(* scraper stores the NWS_CLI observation and under which the observation  *)
(* is looked up: every row of the store has the id of a station as its     *)
(* location, and every forecast record written carries as observed_mtd     *)
(* the latest observation stored for its station at the time of writing.   *)
(***************************************************************************)
C27_StationIdKey ==
    [][(Len(db_log') > Len(db_log) /\ Returned.fn = "save_forecast") =>
          \E sid \in DOMAIN STATIONS :
              /\ Returned.location_id = STATIONS[sid].id
              /\ Returned.model_name # "NWS_CLI" =>
                    Returned.observed_mtd = LatestObservationOf(STATIONS[sid].id)]_vars

\* the part of C27 about the paths other than the NBM text product
C27_OtherPaths ==
    [][(/\ Len(db_log') > Len(db_log)
        /\ Returned.fn = "save_forecast"
        /\ Returned.model_name # "NBM") =>
          \E sid \in DOMAIN STATIONS :
              /\ Returned.location_id = STATIONS[sid].id
              /\ Returned.model_name # "NWS_CLI" =>
                    Returned.observed_mtd = LatestObservationOf(STATIONS[sid].id)]_vars

\* two observations of a station and then a forecast record of it, carrying
\* the later observation
C27_OtherPathsWitness ==
    /\ pc = "paths"
    /\ Len(db_log) = 4
    /\ Saves = {1, 2, 4}
    /\ db_log[1].model_name = "NWS_CLI"
    /\ db_log[2].model_name = "NWS_CLI"
    /\ db_log[1].location_id = "KNYC"
    /\ db_log[2].location_id = "KNYC"
    /\ TextLess(db_log[1].init_time, db_log[2].init_time)
    /\ db_log[1].observed_mtd = RInt(2)
    /\ db_log[2].observed_mtd = RInt(1)
    /\ db_log[4].model_name = "NWS"
    /\ db_log[4].location_id = "KNYC"
    /\ db_log[4].observed_mtd = RInt(1)

(***************************************************************************)
(* ingest_temperature.py: the target date of the temperature forecasts.    *)
(* An instant t is a UTC time on the axis; the wall clock of a zone is the *)
(* instant shifted by the zone's UTC offset.  The axis is November and     *)
(* December, so every zone is on standard time.                            *)
(***************************************************************************)
MaxHours == 30

\* pytz.timezone(name): the UTC offset in hours, standard time
utcoffset(tz) ==
    IF tz = "America/New_York" THEN -5
    ELSE IF tz = "America/Chicago" THEN -6
    ELSE IF tz = "America/Denver" THEN -7
    ELSE -8

\* strftime("%Y-%m-%d") of a wall clock time, as the tuple of its fields
strftime(wall) == <<year(wall), month(wall), day(wall)>>

\* the order of two such texts
DateLeq(a, b) ==
    \/ a = b
    \/ \E j \in 1..3 : (\A k \in 1..(j - 1) : a[k] = b[k]) /\ a[j] < b[j]

\* the stations of config.py, one per configured time zone
ZoneStations ==
    [NYC    |-> [id |-> "KNYC", timezone |-> "America/New_York"],
     CHI    |-> [id |-> "KMDW", timezone |-> "America/Chicago"],
     DEN    |-> [id |-> "KDEN", timezone |-> "America/Denver"],
     CLILAX |-> [id |-> "KLAX", timezone |-> "America/Los_Angeles"]]

\* now_mst = datetime.now(mst_tz); tomorrow from 8 PM on; the date of the
\* target instant in the station's zone
get_forecast_target_date(station, t) ==
    LET now_mst              == t + utcoffset("America/Denver") * TPH
        target_date          == IF hour(now_mst) >= 20 THEN t + Day ELSE t
        target_in_station_tz == target_date + utcoffset(station.timezone) * TPH
    IN  strftime(target_in_station_tz)

\* the scheduler starts at noon UTC of 29 November
TargetStart == MonthStart[2] - 36 * TPH

InitTargetDate ==
    /\ Standing("target")
    /\ clock = TargetStart
    /\ forecasts = EmptyStore
    /\ db_log = <<>>
    /\ writers = <<>>
    /\ target_dates = <<>>
    /\ temperature_forecasts = <<>>

\* an hour of wall-clock time passes
HourPasses ==
    /\ pc = "target"
    /\ clock < TargetStart + MaxHours * TPH
    /\ clock' = clock + TPH
    /\ UNCHANGED <<standing_vars, forecasts, db_log, side_vars>>

\* one call of get_forecast_target_date; the two most recent calls are kept
TargetDateCall(sid) ==
    /\ pc = "target"
    /\ LET call == [station |-> sid, t |-> clock,
                    date |-> get_forecast_target_date(ZoneStations[sid], clock)]
       IN  target_dates' = IF target_dates = <<>> THEN <<call>>
                           ELSE <<target_dates[Len(target_dates)], call>>
    /\ UNCHANGED <<standing_vars, clock, forecasts, db_log, writers,
                   temperature_forecasts>>

NextTargetDate ==
    \/ HourPasses
    \/ \E sid \in DOMAIN ZoneStations : TargetDateCall(sid)

SpecTargetDate == InitTargetDate /\ [][NextTargetDate]_vars

(***************************************************************************)
(* C29.  For every station the target date returned by                     *)
(* get_forecast_target_date never moves backward as wall-clock time        *)
(* advances: of two calls for a station, the later one returns the same    *)
(* date or a later one.                                                    *)
(***************************************************************************)
C29_NeverBackward ==
    \A j, k \in 1..Len(target_dates) :
        (/\ target_dates[j].station = target_dates[k].station
         /\ target_dates[j].t <= target_dates[k].t) =>
            DateLeq(target_dates[j].date, target_dates[k].date)

\* the part of C29 about the stations in the zone of the cutoff
C29_NeverBackwardDenver ==
    \A j, k \in 1..Len(target_dates) :
        (/\ target_dates[j].station = "DEN"
         /\ target_dates[k].station = "DEN"
         /\ target_dates[j].t <= target_dates[k].t) =>
            DateLeq(target_dates[j].date, target_dates[k].date)

\* Denver before and after the cutoff, and again after midnight
C29_DenverWitness ==
    /\ Len(target_dates) = 2
    /\ target_dates[1].station = "DEN"
    /\ target_dates[2].station = "DEN"
    /\ hour(target_dates[1].t + utcoffset("America/Denver") * TPH) = 23
    /\ hour(target_dates[2].t + utcoffset("America/Denver") * TPH) = 0
    /\ target_dates[1].date = target_dates[2].date
    /\ target_dates[1].date = <<0, 11, 30>>

(***************************************************************************)
(* db.py: table temperature_forecasts as the sequence of its rows, unique  *)
(* on (location_id, target_date, model_name, forecast_type).  Temperatures *)
(* are in tenths of a degree Fahrenheit; observed_value and error are <<>> *)
(* when NULL and <<v>> when set.                                           *)
(***************************************************************************)
NULL == <<>>
NotNull(v) == <<v>>

\* int(x) of Python and CAST(x AS INTEGER) of SQLite: toward zero
Truncate(tenths) == IF tenths >= 0 THEN tenths \div 10 ELSE -((-tenths) \div 10)

\* round_half_up(value) = int(value + 0.5), in whole degrees
round_half_up(tenths) == Truncate(tenths + 5)

TemperatureKey(r) == <<r.location_id, r.target_date, r.model_name, r.forecast_type>>

\* INSERT ... ON CONFLICT(location_id, target_date, model_name,
\* forecast_type) DO UPDATE SET forecast_value = excluded.forecast_value
save_temperature_forecast(table, location_id, target_date, model, forecast_value, forecast_type) ==
    LET key == <<location_id, target_date, model, forecast_type>>
    IN  IF \E j \in 1..Len(table) : TemperatureKey(table[j]) = key
        THEN [j \in 1..Len(table) |->
                 IF TemperatureKey(table[j]) = key
                 THEN [table[j] EXCEPT !.forecast_value = forecast_value]
                 ELSE table[j]]
        ELSE Append(table,
                    [location_id    |-> location_id,
                     target_date    |-> target_date,
                     model_name     |-> model,
                     forecast_type  |-> forecast_type,
                     forecast_value |-> forecast_value,
                     observed_value |-> NULL,
                     error          |-> NULL])

\* UPDATE ... SET observed_value = ?, error = CAST(forecast_value + 0.5 AS
\* INTEGER) - ? WHERE location_id = ? AND target_date = ? AND forecast_type = ?
update_temperature_observation(table, location_id, target_date, observed_value, forecast_type) ==
    LET rounded_observed == round_half_up(observed_value)
    IN  [j \in 1..Len(table) |->
            IF /\ table[j].location_id = location_id
               /\ table[j].target_date = target_date
               /\ table[j].forecast_type = forecast_type
            THEN [table[j] EXCEPT
                     !.observed_value = NotNull(rounded_observed),
                     !.error = NotNull(Truncate(table[j].forecast_value + 5)
                                           - rounded_observed)]
            ELSE table[j]]

\* forecasts of 69.4, 74.5 and -3.7 F; observations of 68.0 and 71.5 F
TemperatureForecastValues == {694, 745, -37}
TemperatureObservedValues == {680, 715}
TemperatureModels == {"GFS", "ECMWF IFS"}
ForecastTypes == {"high", "low"}
TargetDates == {<<0, 11, 30>>}

InitTemperature ==
    /\ Standing("temperature")
    /\ clock = 0
    /\ forecasts = EmptyStore
    /\ db_log = <<>>
    /\ writers = <<>>
    /\ target_dates = <<>>
    /\ temperature_forecasts = <<>>

SaveTemperatureForecastCall ==
    /\ pc = "temperature"
    /\ Len(db_log) < MaxCalls
    /\ \E target_date \in TargetDates, model \in TemperatureModels,
          forecast_value \in TemperatureForecastValues, forecast_type \in ForecastTypes :
          /\ temperature_forecasts' =
                save_temperature_forecast(temperature_forecasts, "KNYC", target_date,
                                          model, forecast_value, forecast_type)
          /\ db_log' = Append(db_log,
                              [fn             |-> "save_temperature_forecast",
                               location_id    |-> "KNYC",
                               target_date    |-> target_date,
                               model_name     |-> model,
                               forecast_type  |-> forecast_type,
                               forecast_value |-> forecast_value])
    /\ UNCHANGED <<standing_vars, clock, forecasts, writers, target_dates>>

UpdateTemperatureObservationCall ==
    /\ pc = "temperature"
    /\ Len(db_log) < MaxCalls
    /\ \E target_date \in TargetDates, observed_value \in TemperatureObservedValues,
          forecast_type \in ForecastTypes :
          /\ temperature_forecasts' =
                update_temperature_observation(temperature_forecasts, "KNYC", target_date,
                                               observed_value, forecast_type)
          /\ db_log' = Append(db_log,
                              [fn             |-> "update_temperature_observation",
                               location_id    |-> "KNYC",
                               target_date    |-> target_date,
                               forecast_type  |-> forecast_type,
                               observed_value |-> observed_value])
    /\ UNCHANGED <<standing_vars, clock, forecasts, writers, target_dates>>

NextTemperature == SaveTemperatureForecastCall \/ UpdateTemperatureObservationCall

SpecTemperature == InitTemperature /\ [][NextTemperature]_vars

(***************************************************************************)
(* C30.  After any sequence of save_temperature_forecast and               *)
(* update_temperature_observation calls, every temperature_forecasts row   *)
(* whose observed_value is set has error = round_half_up(forecast_value) - *)
(* observed_value for its current forecast_value.                          *)
(***************************************************************************)
C30_ErrorCurrent ==
    \A j \in 1..Len(temperature_forecasts) :
        temperature_forecasts[j].observed_value # NULL =>
            temperature_forecasts[j].error =
                NotNull(round_half_up(temperature_forecasts[j].forecast_value)
                            - temperature_forecasts[j].observed_value[1])

\* the part of C30 that holds: re-saving a forecast keeps the observation of
\* its row, and every update leaves the rows it matches with the error of
\* their forecast
C30_ObservationKept ==
    [][/\ (Len(db_log') > Len(db_log) /\ Returned.fn = "save_temperature_forecast") =>
             \A j \in 1..Len(temperature_forecasts) :
                 /\ temperature_forecasts'[j].observed_value
                        = temperature_forecasts[j].observed_value
                 /\ TemperatureKey(temperature_forecasts'[j])
                        = TemperatureKey(temperature_forecasts[j])
       /\ (Len(db_log') > Len(db_log) /\ Returned.fn = "update_temperature_observation") =>
             \A j \in 1..Len(temperature_forecasts') :
                 (/\ temperature_forecasts'[j].target_date = Returned.target_date
                  /\ temperature_forecasts'[j].forecast_type = Returned.forecast_type) =>
                     temperature_forecasts'[j].error =
                         NotNull(round_half_up(temperature_forecasts'[j].forecast_value)
                                     - round_half_up(Returned.observed_value))]_vars

\* a forecast saved, observed, and saved again with another value: the row
\* keeps its observation
C30_ObservationKeptWitness ==
    /\ pc = "temperature"
    /\ Len(db_log) = 3
    /\ db_log[1].fn = "save_temperature_forecast"
    /\ db_log[2].fn = "update_temperature_observation"
    /\ db_log[3].fn = "save_temperature_forecast"
    /\ db_log[1].forecast_value = 694
    /\ db_log[3].forecast_value = 745
    /\ Len(temperature_forecasts) = 1
    /\ temperature_forecasts[1].forecast_value = 745
    /\ temperature_forecasts[1].observed_value = NotNull(68)

==========================================================================
